---- MODULE Spec2Model ----
(***************************************************************************)
(* Regular-expression front end of acescudero/COMP370: NFA description     *)
(* reader, NFA -> DFA subset construction (pa4/nfa.py), DFA description    *)
(* reader and DFA simulation (pa3/dfa.py), regular-expression parser and   *)
(* AST -> NFA builder (pa3/regex.py, pa3/tree.py) and the maximal-munch    *)
(* lexer (pa4/lexer.py).                                                   *)
(***************************************************************************)
EXTENDS Integers, Sequences, FiniteSets, TLC

VARIABLES
    nfa,                \* the NFA object
    nfa_phase,          \* how far the NFA / RegEx / DFA under test has got
    dfa,                \* the DFA that NFA.to_DFA or DFA(filename=...) returned
    curr_state,         \* DFA.simulate: curr_state
    str,                \* DFA.simulate: the part of str consumed so far
    conversion,         \* NFA._nfa_conversion: its locals while the loop runs
    regex_obj,              \* the RegEx object
    generated_dfas,     \* Lex.generated_dfas, in insertion order
    source_file_data,   \* Lex.source_file_data
    last_num_token,     \* Lex._initialize_from_file: last_num_token
    lex_phase,          \* how far the construction of the Lex has got
    last_call,          \* the last next_token call: its input and how it ended
    dfa_file,           \* the lines of the DFA description handed to DFA(filename=...)
    node_objects,       \* the Node objects constructed so far
    list_objects,       \* the list objects that Node.children refer to
    node_call           \* the last call on a Node: the operation and the node

nfa_vars == <<nfa, nfa_phase, dfa, curr_state, str, conversion>>

lex_vars == <<generated_dfas, source_file_data, last_num_token, lex_phase, last_call>>

file_vars == <<dfa_file>>

node_vars == <<node_objects, list_objects, node_call>>

vars == <<nfa, nfa_phase, dfa, curr_state, str, conversion, regex_obj,
          generated_dfas, source_file_data, last_num_token, lex_phase, last_call,
          dfa_file, node_objects, list_objects, node_call>>

(***************************************************************************)
(* Bounds                                                                  *)
(***************************************************************************)
\* number of states declared on line 1 of an NFA description
NumNfaStates == 2
\* number of distinct transition records of an NFA description
MaxEdges == 2
\* length of the strings run through DFA.simulate
MaxLen == 3
\* length of the regular expressions that are enumerated exhaustively
MaxRegexLen == 4
\* number of token lines of a lexer definition file
MaxTokens == 3
\* length of the source text of the lexer
MaxSrcLen == 3
\* number of lines of a DFA description
MaxFileLines == 5

MaxNodes == 2

MaxAddChild == 3

(***************************************************************************)
(* Helpers                                                                 *)
(***************************************************************************)
Range(s) == {s[i] : i \in 1..Len(s)}

InSeq(x, s) == \E i \in 1..Len(s) : s[i] = x

Min(S) == CHOOSE x \in S : \A y \in S : x <= y

RECURSIVE SetToSeq(_)
SetToSeq(S) == IF S = {} THEN <<>> ELSE <<Min(S)>> \o SetToSeq(S \ {Min(S)})

\* the alphabet line of the description files
Alphabet == <<"a", "b">>

\* the marker nfa.py uses for an epsilon edge
Epsilon == "e"

NfaStates == 1..NumNfaStates

NoDFA == [status |-> "none"]

NoConversion == [status |-> "none"]

(***************************************************************************)
(* pa4/nfa.py                                                              *)
(***************************************************************************)
\* NFA._store_transition: the inner dict of state_from gains state_to under
\* transition_char; absent entries are modelled as the empty set
_store_transition(state_from, state_to, transition_char, transition_dict) ==
    [transition_dict EXCEPT
        ![state_from][transition_char] = @ \cup {state_to}]

\* NFA._get_transition
_get_transition(n, state, symbol) ==
    IF state \in DOMAIN n.transition_function
       /\ symbol \in DOMAIN n.transition_function[state]
    THEN n.transition_function[state][symbol]
    ELSE {}

RECURSIVE epsilon_closure_loop(_, _, _)
epsilon_closure_loop(n, queue, states_seen) ==
    IF queue = <<>> THEN states_seen
    ELSE LET curr == Head(queue)
             seen == states_seen \cup {curr}
             epsilon_transitions == _get_transition(n, curr, Epsilon)
             fresh == SetToSeq({t \in epsilon_transitions : t \notin seen})
         IN epsilon_closure_loop(n, Tail(queue) \o fresh, seen)

\* the number of iterations of the while loop of NFA._get_epsilon_closure
RECURSIVE epsilon_closure_iterations(_, _, _)
epsilon_closure_iterations(n, queue, states_seen) ==
    IF queue = <<>> THEN 0
    ELSE LET curr == Head(queue)
             seen == states_seen \cup {curr}
             epsilon_transitions == _get_transition(n, curr, Epsilon)
             fresh == SetToSeq({t \in epsilon_transitions : t \notin seen})
         IN 1 + epsilon_closure_iterations(n, Tail(queue) \o fresh, seen)

\* _get_epsilon_closure that follows no edge
_get_epsilon_closure_seed_only(n, state) == {state}

\* NFA._get_epsilon_closure: breadth-first over the 'e' edges
_get_epsilon_closure(n, state) == epsilon_closure_loop(n, <<state>>, {})

\* NFA._get_transition_for_states_set
_get_transition_for_states_set(n, set_of_states, symbol) ==
    UNION {_get_transition(n, state, symbol) : state \in set_of_states}

\* NFA._get_epsilon_closure_for_states_set
_get_epsilon_closure_for_states_set(n, set_of_states) ==
    UNION {_get_epsilon_closure(n, state) : state \in set_of_states}

\* _generate_int_mapping with the two entries of the reverse mapping swapped
_generate_int_mapping_swapped(start_state, reverse) ==
    IF reverse
    THEN (1 :> start_state) @@ (2 :> {})
    ELSE ({} :> 1) @@ (start_state :> 2)

\* NFA._generate_int_mapping: the empty set is 1, the start set is 2
_generate_int_mapping(start_state, reverse) ==
    IF reverse
    THEN (1 :> {}) @@ (2 :> start_state)
    ELSE ({} :> 1) @@ (start_state :> 2)

\* dest_states without the epsilon closure of the destination
dest_states_without_closure(n, curr_state_set, symbol) ==
    _get_transition_for_states_set(n, curr_state_set, symbol)

\* the destination set of one (state set, symbol) pair, nfa.py lines 272-285
dest_states(n, curr_state_set, symbol) ==
    LET transition_on_symbol ==
            _get_transition_for_states_set(n, curr_state_set, symbol)
        transition_e_closure ==
            _get_epsilon_closure_for_states_set(n, transition_on_symbol)
    IN transition_on_symbol \cup transition_e_closure

\* a test of states_handled that finds no set handled
handled_before_never(curr_state_set, states_handled) == FALSE

\* `curr_state_set not in states_handled`, nfa.py line 269, negated
handled_before(curr_state_set, states_handled) ==
    InSeq(curr_state_set, states_handled)

\* one iteration of the worklist loop of NFA._nfa_conversion, nfa.py lines
\* 267-311
conversion_step(n, c) ==
    LET curr_state_set == Head(c.queue)
        rest == Tail(c.queue)
    IN IF handled_before(curr_state_set, c.states_handled)
       THEN [c EXCEPT !.queue = rest]
       ELSE
         LET transitions ==
                 [symbol \in Range(n.alphabet) |->
                     dest_states(n, curr_state_set, symbol)]
             dests == [i \in 1..Len(n.alphabet) |-> transitions[n.alphabet[i]]]
             enqueued == SelectSeq(dests, LAMBDA d : d # {})
             empty_seen == \E i \in 1..Len(dests) : dests[i] = {}
             known == curr_state_set \in DOMAIN c.int_mapping
             set_id == IF known THEN c.int_mapping[curr_state_set]
                       ELSE c.next_state_id
         IN [queue |-> rest \o enqueued,
             states_handled |-> Append(c.states_handled, curr_state_set),
             int_mapping |->
                 IF known THEN c.int_mapping
                 ELSE (curr_state_set :> set_id) @@ c.int_mapping,
             int_mapping_reverse |->
                 IF known THEN c.int_mapping_reverse
                 ELSE (set_id :> curr_state_set) @@ c.int_mapping_reverse,
             transition_function |->
                 (set_id :> transitions) @@ c.transition_function,
             key_order |->
                 IF InSeq(set_id, c.key_order) THEN c.key_order
                 ELSE Append(c.key_order, set_id),
             next_state_id |-> c.next_state_id + 1,
             number_of_states |-> c.number_of_states + 1,
             start_state |-> c.start_state,
             found_empty |-> c.found_empty \/ empty_seen]

\* the worklist loop of NFA._nfa_conversion, nfa.py lines 266-311
RECURSIVE conversion_loop(_, _)
conversion_loop(n, c) ==
    IF c.queue = <<>> THEN c ELSE conversion_loop(n, conversion_step(n, c))

\* the locals of NFA._nfa_conversion before the loop, nfa.py lines 243-264
conversion_start(start_state) ==
    [queue |-> <<start_state>>,
     states_handled |-> <<>>,
     int_mapping |-> _generate_int_mapping(start_state, FALSE),
     int_mapping_reverse |-> _generate_int_mapping(start_state, TRUE),
     transition_function |-> <<>>,
     key_order |-> <<>>,
     next_state_id |-> 2,
     number_of_states |-> 1,
     start_state |-> 2,
     found_empty |-> FALSE]

\* NFA._nfa_conversion after the loop, nfa.py lines 313-333: the reject state
\* is dropped from the mappings or given its self loops
conversion_end(n, c) ==
       IF ~c.found_empty
       THEN [c EXCEPT
               !.int_mapping =
                   [s \in (DOMAIN c.int_mapping) \ {{}} |-> c.int_mapping[s]],
               !.int_mapping_reverse =
                   [i \in (DOMAIN c.int_mapping_reverse) \ {1} |->
                       c.int_mapping_reverse[i]],
               !.number_of_states = c.number_of_states - 1,
               !.start_state = c.start_state - 1]
       ELSE IF n.alphabet = <<>> THEN c
       ELSE [c EXCEPT
               !.transition_function =
                   (1 :> [symbol \in Range(n.alphabet) |-> 1])
                       @@ c.transition_function,
               !.key_order =
                   IF InSeq(1, c.key_order) THEN c.key_order
                   ELSE Append(c.key_order, 1)]

\* NFA._nfa_conversion: the locals are set up, the loop runs, the reject
\* state is settled
_nfa_conversion(n, start_state) ==
    conversion_end(n, conversion_loop(n, conversion_start(start_state)))

\* _generate_shifted_transition_value leaving the targets as they are
_generate_shifted_transition_value_unshifted(value) == value

\* NFA._generate_shifted_transition_value
_generate_shifted_transition_value(value) ==
    [key \in DOMAIN value |-> value[key] - 1]

\* NFA._generate_shifted_keys_dict for the transition function
_generate_shifted_keys_dict(transition_function) ==
    [new_state \in {state - 1 : state \in DOMAIN transition_function} |->
        _generate_shifted_transition_value(transition_function[new_state + 1])]

\* the accept states left as they are
shifted_accept_states_unshifted(accept_states) == accept_states

\* NFA._generate_shifted_keys_dict(accept_states, False): keys only
shifted_accept_states(accept_states) == {state - 1 : state \in accept_states}

\* the first key, in the dict's insertion order, at which the membership test
\* `nfa_state in self.accept_states` is evaluated (nfa.py line 405)
accept_test_reached(c) ==
    \E i \in 1..Len(c.key_order) : c.int_mapping_reverse[c.key_order[i]] # {}

\* a destination set the set-to-int mapping has no entry for (nfa.py line 414)
unmapped_destination(n, c) ==
    \E state \in (DOMAIN c.transition_function) \ {1} :
        \E symbol \in Range(n.alphabet) :
            c.transition_function[state][symbol] \notin DOMAIN c.int_mapping

\* NFA._finalize_dfa
_finalize_dfa(n, c) ==
    IF n.accept_states_is_None /\ accept_test_reached(c)
    THEN [status |-> "TypeError"]
    ELSE IF unmapped_destination(n, c)
    THEN [status |-> "KeyError"]
    ELSE
      LET keys == DOMAIN c.transition_function
          accept_states ==
              {state \in keys :
                  \E nfa_state \in c.int_mapping_reverse[state] :
                      nfa_state \in n.accept_states}
          transition_function ==
              [state \in keys |->
                  IF state # 1
                  THEN [symbol \in Range(n.alphabet) |->
                           c.int_mapping[c.transition_function[state][symbol]]]
                  ELSE c.transition_function[state]]
          shift == 1 \notin keys
      IN [status |-> "ok",
          alphabet |-> n.alphabet,
          number_of_states |-> c.number_of_states,
          start_state |-> c.start_state,
          transition_function |->
              IF shift THEN _generate_shifted_keys_dict(transition_function)
              ELSE transition_function,
          accept_states |->
              IF shift THEN shifted_accept_states(accept_states)
              ELSE accept_states]

\* NFA.to_DFA
to_DFA(n) ==
    LET start_state_e_closure == _get_epsilon_closure(n, n.start_state)
    IN _finalize_dfa(n, _nfa_conversion(n, start_state_e_closure))

(***************************************************************************)
(* pa3/dfa.py                                                              *)
(***************************************************************************)
\* whether DFA.transition / the lookup of DFA.simulate finds an entry
has_transition(d, state, symbol) ==
    /\ state \in DOMAIN d.transition_function
    /\ symbol \in DOMAIN d.transition_function[state]

\* DFA.transition
transition(d, state, symbol) == d.transition_function[state][symbol]

(***************************************************************************)
(* pa3/dfa.py: DFA(filename=...)                                           *)
(* A description is a sequence of lines, a line the sequence of its        *)
(* whitespace-separated tokens (what strip().split() gives), a token a     *)
(* sequence of one-character strings. Reading past the last line gives the *)
(* empty line.                                                             *)
(***************************************************************************)
DigitChars == <<"0", "1", "2", "3", "4", "5", "6", "7", "8", "9">>

\* str.isnumeric, for the characters the descriptions are written with
isnumeric(s) == s # <<>> /\ \A i \in 1..Len(s) : InSeq(s[i], DigitChars)

\* int(s) of a numeric string
RECURSIVE int(_)
int(s) ==
    IF s = <<>> THEN 0
    ELSE 10 * int(SubSeq(s, 1, Len(s) - 1))
            + (CHOOSE v \in 0..9 : DigitChars[v + 1] = s[Len(s)])

\* dfa_file.readline()
readline(file, k) == IF k <= Len(file) THEN file[k] ELSE <<>>

\* readline().strip(): the tokens of the line with one blank between them
RECURSIVE line_string(_)
line_string(line) ==
    IF line = <<>> THEN <<>>
    ELSE IF Len(line) = 1 THEN line[1]
    ELSE line[1] \o <<" ">> \o line_string(Tail(line))

\* character.replace('\'', '')
strip_quotes(character) == SelectSeq(character, LAMBDA ch : ch # "'")

\* DFA._validate_state
_validate_state(d, state) ==
    IF state = <<>> \/ ~isnumeric(state) THEN FALSE
    ELSE 1 <= int(state) /\ int(state) <= d.number_of_states

\* `char not in self.alphabet`: the alphabet is a list of characters
char_in_alphabet(d, char) == Len(char) = 1 /\ InSeq(char[1], d.alphabet)

\* DFA._validate_transition
_validate_transition(d, state_i, state_o, char) ==
    ~(\/ ~(_validate_state(d, state_i) /\ _validate_state(d, state_o))
      \/ ~char_in_alphabet(d, char))

\* DFA._validate_accept_states: the states stored so far, or the failure
RECURSIVE _validate_accept_states(_, _, _, _)
_validate_accept_states(d, accept_states, i, stored) ==
    IF i > Len(accept_states) THEN [valid |-> TRUE, accept_states |-> stored]
    ELSE IF ~_validate_state(d, accept_states[i]) THEN [valid |-> FALSE]
    ELSE _validate_accept_states(d, accept_states, i + 1, stored \cup {accept_states[i]})

\* DFA._store_transition; a validated transition_char is one character
DFA_store_transition(transition_function, state_from, state_to, transition_char) ==
    IF state_from \notin DOMAIN transition_function
    THEN (state_from :> (transition_char[1] :> state_to)) @@ transition_function
    ELSE [transition_function EXCEPT
             ![state_from] = (transition_char[1] :> state_to) @@ @]

\* the while loop of _read_dfa_data_from_file, lines 149-168: k is the line
\* that transition_data was read from
RECURSIVE transition_lines_loop(_, _, _)
transition_lines_loop(d, file, k) ==
    LET transition_data == readline(file, k)
    IN IF Len(transition_data) # 3
       THEN [status |-> "ok", d |-> d, k |-> k, transition_data |-> transition_data]
       ELSE LET source_state == transition_data[1]
                quote_stripped_char == strip_quotes(transition_data[2])
                dest_state == transition_data[3]
            IN IF ~_validate_transition(d, source_state, dest_state, quote_stripped_char)
               THEN [status |-> "FileFormatError"]
               ELSE transition_lines_loop(
                        [d EXCEPT !.transition_function =
                            DFA_store_transition(@, source_state, dest_state,
                                                 quote_stripped_char)],
                        file, k + 1)

\* DFA.__init__ with DFA._read_dfa_data_from_file: the DFA object, or the
\* exception that leaves the constructor
_read_dfa_data_from_file(file) ==
    LET num_of_states == line_string(readline(file, 1))
    IN IF ~isnumeric(num_of_states) \/ num_of_states = <<>>
       THEN [status |-> "FileFormatError"]
       ELSE
         LET d == [alphabet |-> line_string(readline(file, 2)),
                   number_of_states |-> int(num_of_states),
                   transition_function |-> <<>>]
             r == transition_lines_loop(d, file, 3)
         IN IF r.status # "ok" THEN [status |-> r.status]
            ELSE IF r.transition_data = <<>> THEN [status |-> "IndexError"]
            ELSE IF ~_validate_state(r.d, r.transition_data[1])
            THEN [status |-> "FileFormatError"]
            ELSE
              LET acc == _validate_accept_states(r.d, readline(file, r.k + 1), 1, {})
              IN IF ~acc.valid THEN [status |-> "FileFormatError"]
                 ELSE IF Len(file) >= r.k + 2 THEN [status |-> "FileFormatError"]
                 ELSE [status |-> "ok",
                       alphabet |-> r.d.alphabet,
                       number_of_states |-> r.d.number_of_states,
                       transition_function |-> r.d.transition_function,
                       start_state |-> r.transition_data[1],
                       accept_states |-> acc.accept_states]

(***************************************************************************)
(* pa3/helper_functions.py                                                 *)
(* A string is a sequence of one-character strings; a token of a regular   *)
(* expression is such a sequence too, so that len(token) is Len(token).    *)
(***************************************************************************)
\* the concatenation operator U+2218 that insert_concat appends and that
\* regex.py compares tokens with
CONCAT == "<U+2218>"

\* the three-character literal that tree.py line 235 compares node.value with
TREE_CONCAT == "<U+00E2 U+02C6 U+02DC>"

Backslash == "\\"

\* the characters after a backslash that the first alternative of
\* token_pattern accepts
EscapableChars == {"N", "|", "(", ")", "*"}

\* the characters of the third alternative of token_pattern
ReservedChars == {"e", "N", "|", "*", "(", ")"}

RECURSIVE tokenize_from(_, _, _)
tokenize_from(expression, alphabet, i) ==
    IF i > Len(expression) THEN <<>>
    ELSE IF /\ expression[i] = Backslash
            /\ i + 1 <= Len(expression)
            /\ expression[i + 1] \in EscapableChars \cup {Backslash}
    THEN <<SubSeq(expression, i, i + 1)>> \o tokenize_from(expression, alphabet, i + 2)
    ELSE IF \/ expression[i] \in ReservedChars
            \/ expression[i] \in Range(alphabet) \ ReservedChars
    THEN <<SubSeq(expression, i, i)>> \o tokenize_from(expression, alphabet, i + 1)
    ELSE tokenize_from(expression, alphabet, i + 1)

\* tokenize: re.findall of token_pattern, leftmost match first, characters
\* that start no match are skipped
tokenize(expression, alphabet) == tokenize_from(expression, alphabet, 1)

\* the list special_symbols of insert_concat
concat_special_symbols == {"(", ")", "*", "|"}

\* `token in alphabet` for a token and a list of characters
in_alphabet(tok, alphabet) == Len(tok) = 1 /\ tok[1] \in Range(alphabet)

\* is_literal_or_escaped without `len(tok) > 1`
is_literal_only(tok, alphabet) ==
    in_alphabet(tok, alphabet) /\ tok[1] \notin concat_special_symbols

\* `len(tok) > 1 or (tok in alphabet and tok not in special_symbols)`
is_literal_or_escaped(tok, alphabet) ==
    \/ Len(tok) > 1
    \/ (in_alphabet(tok, alphabet) /\ tok[1] \notin concat_special_symbols)

RECURSIVE insert_concat_from(_, _, _)
insert_concat_from(tokens, alphabet, i) ==
    IF i > Len(tokens) THEN <<>>
    ELSE
      LET tok == tokens[i]
          follows ==
              /\ i + 1 <= Len(tokens)
              /\ \/ is_literal_or_escaped(tok, alphabet)
                 \/ tok = <<")">>
                 \/ tok = <<"*">>
              /\ \/ is_literal_or_escaped(tokens[i + 1], alphabet)
                 \/ tokens[i + 1] = <<"(">>
      IN <<tok>> \o (IF follows THEN <<(<<CONCAT>>)>> ELSE <<>>)
               \o insert_concat_from(tokens, alphabet, i + 1)

\* insert_concat
insert_concat(tokens, alphabet) == insert_concat_from(tokens, alphabet, 1)

(***************************************************************************)
(* pa3/tree.py: Node                                                       *)
(***************************************************************************)
\* Node.__init__
Node(value, children, type, is_symbol) ==
    [value |-> value, children |-> children, type |-> type, is_symbol |-> is_symbol]

\* Node.add_child that appends whatever `insert` is
add_child_appending(node, child, insert) ==
    IF node.children # <<>>
    THEN [node EXCEPT !.children = Append(@, child)]
    ELSE [node EXCEPT !.children = <<child>>]

\* Node.add_child
add_child(node, child, insert) ==
    IF node.children # <<>>
    THEN IF insert
         THEN [node EXCEPT !.children = <<child>> \o @]
         ELSE [node EXCEPT !.children = Append(@, child)]
    ELSE [node EXCEPT !.children = <<child>>]

(***************************************************************************)
(* pa3/tree.py: Node objects and the list objects their children refer to  *)
(* objs.nodes is the sequence of the Node objects, objs.lists the sequence *)
(* of the list objects; a Node holds the index of its list, a list the     *)
(* indices of the nodes in it.                                             *)
(***************************************************************************)
\* the list object that `children=[]` of Node.__init__ is evaluated to once,
\* when the class is defined
DefaultChildren == 1

\* Node.__init__: `children` is "default" when the call passes no children
\* (regex.py lines 154 and 183) and "[]" when it passes a new empty list
\* (regex.py lines 86 and 162)
Node_init(objs, value, children, type) ==
    IF children = "default"
    THEN [nodes |-> Append(objs.nodes,
                           [value |-> value, children |-> DefaultChildren, type |-> type]),
          lists |-> objs.lists]
    ELSE [nodes |-> Append(objs.nodes,
                           [value |-> value, children |-> Len(objs.lists) + 1,
                            type |-> type]),
          lists |-> Append(objs.lists, <<>>)]

\* Node.add_child with insert(0, child) and append(child) on the list whether
\* it is empty or not
Node_add_child_in_place(objs, self, child, insert) ==
    LET ref == objs.nodes[self].children
    IN [objs EXCEPT !.lists[ref] = IF insert THEN <<child>> \o @ ELSE Append(@, child)]

\* Node.add_child: a non-empty list is changed in place, an empty one is
\* replaced by the new list [child]
Node_add_child(objs, self, child, insert) ==
    LET ref == objs.nodes[self].children
    IN IF objs.lists[ref] # <<>>
       THEN IF insert
            THEN [objs EXCEPT !.lists[ref] = <<child>> \o @]
            ELSE [objs EXCEPT !.lists[ref] = Append(@, child)]
       ELSE [nodes |-> [objs.nodes EXCEPT ![self].children = Len(objs.lists) + 1],
             lists |-> Append(objs.lists, <<child>>)]

(***************************************************************************)
(* pa3/regex.py: the parser                                                *)
(***************************************************************************)
\* prescedence_mapping with the ranks of union and concatenation exchanged
prescedence_mapping_exchanged(operator) ==
    CASE operator = "(" -> 3
      [] operator = ")" -> 3
      [] operator = "*" -> 2
      [] operator = CONCAT -> 0
      [] operator = "|" -> 1

\* prescedence_mapping of _check_operator_prescedence
prescedence_mapping(operator) ==
    CASE operator = "(" -> 3
      [] operator = ")" -> 3
      [] operator = "*" -> 2
      [] operator = CONCAT -> 1
      [] operator = "|" -> 0

\* _check_operator_prescedence
_check_operator_prescedence(operator1, operator2) ==
    IF prescedence_mapping(operator2) >= prescedence_mapping(operator1)
    THEN operator2
    ELSE operator1

\* RegEx.operator_operand_mapping
operator_operand_mapping(operator) ==
    CASE operator = CONCAT -> 2
      [] operator = "*" -> 1
      [] operator = "|" -> 2

Top(stack) == stack[Len(stack)]

Pop(stack) == SubSeq(stack, 1, Len(stack) - 1)

RECURSIVE pop_operands(_, _, _)
pop_operands(operator_node, operand_stack, count) ==
    IF count = 0 THEN [node |-> operator_node, operand_stack |-> operand_stack]
    ELSE pop_operands(add_child(operator_node, Top(operand_stack), TRUE),
                      Pop(operand_stack), count - 1)

\* one reduction: an operator node takes its operands off the operand stack
\* and is pushed back. `checked` is whether the site tests the stack length
\* first (regex.py lines 88 and 187; line 164 does not); an unchecked pop of
\* an empty list raises IndexError
reduce(p, operator, checked) ==
    LET num_operands == operator_operand_mapping(operator)
    IN IF Len(p.operand_stack) < num_operands
       THEN [p EXCEPT !.status = IF checked THEN "InvalidExpression" ELSE "IndexError"]
       ELSE LET r == pop_operands(Node(operator, <<>>, 1, FALSE),
                                  p.operand_stack, num_operands)
            IN [p EXCEPT !.operand_stack = Append(r.operand_stack, r.node)]

\* the loop of the ')' branch, regex.py lines 161-171
RECURSIVE close_paren_loop(_, _)
close_paren_loop(p, operator) ==
    IF operator = "(" THEN p
    ELSE LET q == reduce(p, operator, FALSE)
         IN IF q.status # "ok" THEN q
            ELSE IF q.operator_stack # <<>>
            THEN close_paren_loop([q EXCEPT !.operator_stack = Pop(@)],
                                  Top(q.operator_stack))
            ELSE [q EXCEPT !.status = "InvalidExpression"]

\* the loop of the operator branch, regex.py lines 181-197
RECURSIVE operator_loop(_, _)
operator_loop(p, tok) ==
    IF p.operator_stack = <<>> THEN p
    ELSE
      LET top == Top(p.operator_stack)
          higher_pres == _check_operator_prescedence(tok, top)
      IN IF higher_pres = top /\ top # "("
         THEN LET q == reduce([p EXCEPT !.operator_stack = Pop(@)], top, TRUE)
              IN IF q.status # "ok" THEN q ELSE operator_loop(q, tok)
         ELSE p

\* the list special_symbols of _parse_regex
parse_special_symbols == {"(", ")", "*", "|", "N"}

\* the body of the token loop of RegEx._parse_regex, regex.py lines 137-200
parse_token(p, alphabet, tok) ==
    IF \/ (in_alphabet(tok, alphabet) /\ tok[1] \notin parse_special_symbols)
       \/ Len(tok) > 1
       \/ tok = <<"e">>
       \/ tok = <<"N">>
    THEN LET is_symbol == tok # <<"e">> /\ tok # <<"N">>
         IN [p EXCEPT !.operand_stack =
                Append(@, Node(tok[Len(tok)], <<>>, 0, is_symbol))]
    ELSE IF tok = <<"(">>
    THEN [p EXCEPT !.operator_stack = Append(@, "(")]
    ELSE IF tok = <<")">>
    THEN IF p.operator_stack # <<>>
         THEN close_paren_loop([p EXCEPT !.operator_stack = Pop(@)],
                               Top(p.operator_stack))
         ELSE p
    ELSE IF tok = <<"*">> \/ tok = <<"|">> \/ tok = <<CONCAT>>
    THEN LET q == operator_loop(p, tok[1])
         IN IF q.status # "ok" THEN q
            ELSE [q EXCEPT !.operator_stack = Append(@, tok[1])]
    ELSE p

RECURSIVE parse_tokens(_, _, _, _)
parse_tokens(p, alphabet, tokens, i) ==
    IF i > Len(tokens) \/ p.status # "ok" THEN p
    ELSE parse_tokens(parse_token(p, alphabet, tokens[i]), alphabet, tokens, i + 1)

\* RegEx._parse_regex
_parse_regex(regex, alphabet) ==
    parse_tokens([operand_stack |-> <<>>, operator_stack |-> <<>>, status |-> "ok"],
                 alphabet,
                 insert_concat(tokenize(regex, alphabet), alphabet), 1)

\* RegEx._empty_operator_stack; the result carries the root in root_node and
\* in operand_stack what the pop of line 94 leaves on the operand stack
RECURSIVE _empty_operator_stack(_)
_empty_operator_stack(p) ==
    IF p.status # "ok" THEN p
    ELSE IF p.operator_stack # <<>>
    THEN LET operator == Top(p.operator_stack)
             q == [p EXCEPT !.operator_stack = Pop(@)]
         IN IF operator = "("
            THEN [q EXCEPT !.status = "InvalidExpression"]
            ELSE _empty_operator_stack(reduce(q, operator, TRUE))
    ELSE IF p.operand_stack = <<>>
    THEN [p EXCEPT !.status = "IndexError"]
    ELSE [status |-> "ok", root_node |-> Top(p.operand_stack),
          operand_stack |-> Pop(p.operand_stack)]

(***************************************************************************)
(* pa3/tree.py: AST -> NFA                                                 *)
(* A transition function is a (partial) function state -> symbol -> set of *)
(* states; dict.update(d) is d @@ (the dict before).                       *)
(***************************************************************************)
\* SimpleNFA.__init__
SimpleNFA(transition_function, accept_states, start_state, last_state) ==
    [transition_function |-> transition_function,
     accept_states |-> accept_states,
     start_state |-> start_state,
     last_state |-> last_state]

\* epsilon_node_to_nfa
epsilon_node_to_nfa(last_state) ==
    SimpleNFA(<<>>, <<last_state + 1>>, last_state + 1, last_state + 1)

\* empty_set_to_nfa
empty_set_to_nfa(last_state) ==
    SimpleNFA(<<>>, <<>>, last_state + 1, last_state + 1)

\* union_to_nfa
union_to_nfa(left_nfa, right_nfa) ==
    LET new_state == right_nfa.last_state + 1
        union_epsilon_transitions ==
            (Epsilon :> {left_nfa.start_state, right_nfa.start_state})
    IN SimpleNFA((new_state :> union_epsilon_transitions)
                     @@ right_nfa.transition_function
                     @@ left_nfa.transition_function,
                 left_nfa.accept_states \o right_nfa.accept_states,
                 new_state, new_state)

\* the loop of kleene_star_to_nfa, tree.py lines 109-112: the entry of each
\* accept state is assigned, not merged
RECURSIVE star_accept_loop(_, _, _, _)
star_accept_loop(transition_function, accept_states, start_state, i) ==
    IF i > Len(accept_states) THEN transition_function
    ELSE star_accept_loop(
             (accept_states[i] :> (Epsilon :> {start_state})) @@ transition_function,
             accept_states, start_state, i + 1)

\* kleene_star_to_nfa
kleene_star_to_nfa(sub) ==
    LET new_state == sub.last_state + 1
        with_new == (new_state :> (Epsilon :> {sub.start_state}))
                        @@ sub.transition_function
    IN SimpleNFA(star_accept_loop(with_new, sub.accept_states, sub.start_state, 1),
                 Append(sub.accept_states, new_state),
                 new_state, new_state)

\* the loop of concat_to_nfa, tree.py lines 134-148
RECURSIVE concat_accept_loop(_, _, _, _)
concat_accept_loop(transition_function, left_accept_states, right_start, i) ==
    IF i > Len(left_accept_states) THEN transition_function
    ELSE
      LET state == left_accept_states[i]
          entry ==
              IF \/ state \notin DOMAIN transition_function
                 \/ Epsilon \notin DOMAIN transition_function[state]
              THEN (Epsilon :> {right_start})
              ELSE [transition_function[state] EXCEPT ![Epsilon] = @ \cup {right_start}]
      IN concat_accept_loop((state :> entry) @@ transition_function,
                            left_accept_states, right_start, i + 1)

\* concat_to_nfa
concat_to_nfa(left_nfa, right_nfa) ==
    SimpleNFA(concat_accept_loop(right_nfa.transition_function
                                     @@ left_nfa.transition_function,
                                 left_nfa.accept_states, right_nfa.start_state, 1),
              right_nfa.accept_states,
              left_nfa.start_state,
              right_nfa.last_state)

\* base_node_to_nfa
base_node_to_nfa(node, last_state) ==
    SimpleNFA((last_state + 1) :> (node.value :> {last_state + 2}),
              <<last_state + 2>>, last_state + 1, last_state + 2)

\* depth_first_recursive
RECURSIVE depth_first_recursive(_, _)
depth_first_recursive(node, last_state) ==
    IF ~node.is_symbol /\ node.children = <<>> /\ node.value = "N"
    THEN empty_set_to_nfa(last_state)
    ELSE IF ~node.is_symbol /\ node.children = <<>> /\ node.value = "e"
    THEN epsilon_node_to_nfa(last_state)
    ELSE IF ~node.is_symbol /\ node.children # <<>> /\ node.value = "*"
    THEN kleene_star_to_nfa(depth_first_recursive(node.children[1], last_state))
    ELSE IF ~node.is_symbol /\ node.children # <<>> /\ node.value = "|"
    THEN LET left_nfa == depth_first_recursive(node.children[1], last_state)
             right_nfa == depth_first_recursive(node.children[2], left_nfa.last_state)
         IN union_to_nfa(left_nfa, right_nfa)
    ELSE IF ~node.is_symbol /\ node.children # <<>> /\ node.value = TREE_CONCAT
    THEN LET left_nfa == depth_first_recursive(node.children[1], last_state)
             right_nfa == depth_first_recursive(node.children[2], left_nfa.last_state)
         IN concat_to_nfa(left_nfa, right_nfa)
    ELSE base_node_to_nfa(node, last_state)

\* depth_first
depth_first(root) == depth_first_recursive(root, 0)

\* RegEx._finalize_simple_nfa, reached from RegEx.to_nfa
_finalize_simple_nfa(alphabet, simple_nfa) ==
    [alphabet |-> alphabet,
     number_of_states |-> simple_nfa.last_state,
     transition_function |-> simple_nfa.transition_function,
     start_state |-> simple_nfa.start_state,
     accept_states |-> Range(simple_nfa.accept_states),
     accept_states_is_None |-> FALSE]

\* RegEx.to_nfa
to_nfa(alphabet, root_node) == _finalize_simple_nfa(alphabet, depth_first(root_node))

\* RegEx.__init__ without the `except InvalidExpression` clause
RegEx_without_except(alphabet, regex_string) ==
    LET parsed == _empty_operator_stack(_parse_regex(regex_string, alphabet))
    IN IF parsed.status = "ok"
       THEN [status |-> "ok", alphabet |-> alphabet, regex_string |-> regex_string,
             invalid |-> FALSE, root_node |-> parsed.root_node,
             nfa |-> to_nfa(alphabet, parsed.root_node)]
       ELSE [status |-> parsed.status, regex_string |-> regex_string]

\* the body of RegEx.__init__ after the definition is read: the record of a
\* constructed RegEx, or the exception that leaves the constructor
RegEx(alphabet, regex_string) ==
    LET parsed == _empty_operator_stack(_parse_regex(regex_string, alphabet))
    IN IF parsed.status = "ok"
       THEN [status |-> "ok", alphabet |-> alphabet, regex_string |-> regex_string,
             invalid |-> FALSE, root_node |-> parsed.root_node,
             nfa |-> to_nfa(alphabet, parsed.root_node)]
       ELSE IF parsed.status = "InvalidExpression"
       THEN [status |-> "ok", alphabet |-> alphabet, regex_string |-> regex_string,
             invalid |-> TRUE]
       ELSE [status |-> parsed.status, regex_string |-> regex_string]

(***************************************************************************)
(* pa4/lexer.py                                                            *)
(***************************************************************************)
\* the token separator of Lex._analyze_input
Separator == " "

Newline == "\n"

\* str.replace(' ', '') that replaces nothing
strip_separators_nothing(s) == s

\* str.replace(' ', '')
strip_separators(s) == SelectSeq(s, LAMBDA ch : ch # Separator)

\* Lex._read_source_file: file.read().replace('\n', ' ')
_read_source_file(content) ==
    [i \in 1..Len(content) |-> IF content[i] = Newline THEN Separator ELSE content[i]]

\* TokenValue.__init__
TokenValue(d, type, order) == [dfa |-> d, type |-> type, order |-> order]

\* `self.generated_dfas[token_type] = token_value`: a known key keeps its
\* place in the dict, a new key goes last
dict_store(dfas, token_value) ==
    IF \E i \in 1..Len(dfas) : dfas[i].type = token_value.type
    THEN [i \in 1..Len(dfas) |->
             IF dfas[i].type = token_value.type THEN token_value ELSE dfas[i]]
    ELSE Append(dfas, token_value)

\* the initial lowest_order of Lex._multiple_token_decider
lowest_order_start == 10000000

\* Lex._multiple_token_decider: None for an empty list
RECURSIVE decider_loop(_, _, _, _)
decider_loop(tokens, i, token_val, lowest_order) ==
    IF i > Len(tokens) THEN token_val
    ELSE IF tokens[i].order < lowest_order
    THEN decider_loop(tokens, i + 1, <<tokens[i]>>, tokens[i].order)
    ELSE decider_loop(tokens, i + 1, token_val, lowest_order)

\* _multiple_token_decider keeping the last token of the list
_multiple_token_decider_last(tokens) ==
    IF tokens = <<>> THEN <<>> ELSE <<tokens[Len(tokens)]>>

\* the result is <<>> for None and <<token>> for a token
_multiple_token_decider(tokens) == decider_loop(tokens, 1, <<>>, lowest_order_start)

\* the inner loop of Lex._analyze_input with `continue` for every separator
RECURSIVE scan_loop_skipping(_, _, _, _, _, _)
scan_loop_skipping(d, input, i, state, longest_match_str_len, reached_accept_state) ==
    LET done == [status |-> "ok",
                 longest_match_str_len |-> longest_match_str_len,
                 reached_accept_state |-> reached_accept_state]
    IN IF i > Len(input) THEN done
       ELSE IF input[i] = Separator
       THEN scan_loop_skipping(d, input, i + 1, state,
                               longest_match_str_len, reached_accept_state)
       ELSE IF ~has_transition(d, state, input[i])
       THEN [status |-> "KeyError"]
       ELSE LET next_state == transition(d, state, input[i])
            IN IF next_state = 1 THEN done
               ELSE IF next_state \in d.accept_states
               THEN scan_loop_skipping(d, input, i + 1, next_state, i, TRUE)
               ELSE scan_loop_skipping(d, input, i + 1, next_state,
                                       longest_match_str_len, reached_accept_state)

\* the inner loop of Lex._analyze_input for one DFA, lexer.py lines 147-175;
\* position i counts from 1, so the recorded length i+1 of the code is i
RECURSIVE scan_loop(_, _, _, _, _, _)
scan_loop(d, input, i, state, longest_match_str_len, reached_accept_state) ==
    LET done == [status |-> "ok",
                 longest_match_str_len |-> longest_match_str_len,
                 reached_accept_state |-> reached_accept_state]
    IN IF i > Len(input) THEN done
       ELSE IF input[i] = Separator
       THEN IF reached_accept_state THEN done
            ELSE scan_loop(d, input, i + 1, state,
                           longest_match_str_len, reached_accept_state)
       ELSE IF ~has_transition(d, state, input[i])
       THEN [status |-> "KeyError"]
       ELSE LET next_state == transition(d, state, input[i])
            IN IF next_state = 1 THEN done
               ELSE IF next_state \in d.accept_states
               THEN scan_loop(d, input, i + 1, next_state, i, TRUE)
               ELSE scan_loop(d, input, i + 1, next_state,
                              longest_match_str_len, reached_accept_state)

\* scan recording i instead of i+1 as the accepted length
scan_off_by_one(d, input) ==
    LET r == scan_loop(d, input, 1, d.start_state, 0, FALSE)
    IN IF r.status = "ok" /\ r.reached_accept_state
       THEN [r EXCEPT !.longest_match_str_len = @ - 1]
       ELSE r

\* the scan of one DFA over the input from its start state, lexer.py lines 144-175
scan(d, input) == scan_loop(d, input, 1, d.start_state, 0, FALSE)

\* the outer loop of Lex._analyze_input over the DFAs, lexer.py lines 142-186
RECURSIVE dfas_loop(_, _, _, _, _)
dfas_loop(dfas, input, k, accepting_token_values, final_longest_match_str_len) ==
    IF k > Len(dfas)
    THEN [status |-> "ok",
          accepting_token_values |-> accepting_token_values,
          final_longest_match_str_len |-> final_longest_match_str_len]
    ELSE LET r == scan(dfas[k].dfa, input)
         IN IF r.status # "ok" THEN [status |-> r.status]
            ELSE IF r.reached_accept_state
                    /\ r.longest_match_str_len > final_longest_match_str_len
            THEN dfas_loop(dfas, input, k + 1, <<dfas[k]>>, r.longest_match_str_len)
            ELSE IF r.reached_accept_state
                    /\ r.longest_match_str_len = final_longest_match_str_len
            THEN dfas_loop(dfas, input, k + 1,
                           Append(accepting_token_values, dfas[k]),
                           r.longest_match_str_len)
            ELSE dfas_loop(dfas, input, k + 1,
                           accepting_token_values, final_longest_match_str_len)

\* Lex._analyze_input; result_token is <<>> for None
_analyze_input(dfas, input) ==
    LET r == dfas_loop(dfas, input, 1, <<>>, 0)
    IN IF r.status # "ok" THEN r
       ELSE [status |-> "ok",
             result_token |->
                 IF Len(r.accepting_token_values) = 1
                 THEN <<r.accepting_token_values[1]>>
                 ELSE _multiple_token_decider(r.accepting_token_values),
             matched_str |-> SubSeq(input, 1, r.final_longest_match_str_len),
             str_len |-> r.final_longest_match_str_len]

\* consume without the normalisation of a rest of separators
consume_without_normalisation(data, str_len) == SubSeq(data, str_len + 1, Len(data))

\* the source_file_data that Lex.next_token leaves, lexer.py lines 217-220
consume(data, str_len) ==
    LET rest == SubSeq(data, str_len + 1, Len(data))
        check_str == strip_separators(rest)
    IN IF check_str = <<>> THEN check_str ELSE rest

\* next_token without the test of line 214
next_token_without_eof_test(dfas, data) ==
    LET a == _analyze_input(dfas, data)
    IN IF a.status # "ok"
       THEN [kind |-> a.status, input |-> data, data |-> data]
       ELSE IF a.result_token # <<>>
       THEN [kind |-> "token", input |-> data,
             data |-> consume(data, a.str_len),
             type |-> a.result_token[1].type,
             order |-> a.result_token[1].order,
             lexeme |-> strip_separators(a.matched_str),
             str_len |-> a.str_len]
       ELSE [kind |-> "InvalidToken", input |-> data,
             data |-> consume(data, a.str_len)]

\* Lex.next_token: how the call ends and the source_file_data it leaves
next_token(dfas, data) ==
    IF data = <<>>
    THEN [kind |-> "EOFError", input |-> data, data |-> data]
    ELSE LET a == _analyze_input(dfas, data)
         IN IF a.status # "ok"
            THEN [kind |-> a.status, input |-> data, data |-> data]
            ELSE IF a.result_token # <<>>
            THEN [kind |-> "token", input |-> data,
                  data |-> consume(data, a.str_len),
                  type |-> a.result_token[1].type,
                  order |-> a.result_token[1].order,
                  lexeme |-> strip_separators(a.matched_str),
                  str_len |-> a.str_len]
            ELSE [kind |-> "InvalidToken", input |-> data,
                  data |-> consume(data, a.str_len)]


(***************************************************************************)
(* State that a specification does not use stays at these values           *)
(***************************************************************************)
NoNFA == [status |-> "none"]

NoRegEx == [status |-> "none"]

NoCall == [kind |-> "none"]

NfaIdle ==
    /\ nfa = NoNFA
    /\ nfa_phase = "idle"
    /\ dfa = NoDFA
    /\ curr_state = 0
    /\ str = <<>>
    /\ conversion = NoConversion

LexIdle ==
    /\ generated_dfas = <<>>
    /\ source_file_data = <<>>
    /\ last_num_token = 0
    /\ lex_phase = "idle"
    /\ last_call = NoCall

FileIdle == dfa_file = <<>>

NoNodeCall == [op |-> "none", self |-> 0]

\* no Node has been constructed: the only list object is the default of the
\* parameter `children`
NodeIdle ==
    /\ node_objects = <<>>
    /\ list_objects = <<(<<>>)>>
    /\ node_call = NoNodeCall

(***************************************************************************)
(* An NFA is read from its description, converted, and a string is run     *)
(* through the resulting DFA one symbol at a time.                         *)
(***************************************************************************)
EmptyTransitionDict ==
    [state \in NfaStates |-> [symbol \in Range(Alphabet) \cup {Epsilon} |-> {}]]

edge_count(transition_dict) ==
    Cardinality({<<s, x, t>> \in NfaStates \X (Range(Alphabet) \cup {Epsilon}) \X NfaStates :
                    t \in transition_dict[s][x]})

InitNFA ==
    /\ nfa = [alphabet |-> Alphabet,
              number_of_states |-> NumNfaStates,
              transition_function |-> EmptyTransitionDict,
              start_state |-> 0,
              accept_states |-> {},
              accept_states_is_None |-> FALSE]
    /\ nfa_phase = "transitions"
    /\ dfa = NoDFA
    /\ curr_state = 0
    /\ str = <<>>
    /\ conversion = NoConversion
    /\ regex_obj = NoRegEx
    /\ LexIdle
    /\ FileIdle
    /\ NodeIdle

\* one transition record of NFA._extract_nfa_data_from_file (lines 83-96)
ReadTransition(source_state, character, dest_state) ==
    /\ nfa_phase = "transitions"
    /\ edge_count(nfa.transition_function) < MaxEdges
    /\ dest_state \notin nfa.transition_function[source_state][character]
    /\ nfa' = [nfa EXCEPT !.transition_function =
                  _store_transition(source_state, dest_state, character, @)]
    /\ UNCHANGED <<nfa_phase, dfa, curr_state, str, regex_obj>>
    /\ UNCHANGED lex_vars
    /\ UNCHANGED file_vars
    /\ UNCHANGED node_vars
    /\ UNCHANGED conversion

\* the start-state and accept-state lines (lines 98-103): an empty accept
\* line leaves accept_states None
ReadStartAndAccept(start_state, accept_states_line) ==
    /\ nfa_phase = "transitions"
    /\ nfa' = [nfa EXCEPT !.start_state = start_state,
                          !.accept_states = accept_states_line,
                          !.accept_states_is_None = (accept_states_line = {})]
    /\ nfa_phase' = "read"
    /\ UNCHANGED <<dfa, curr_state, str, regex_obj>>
    /\ UNCHANGED lex_vars
    /\ UNCHANGED file_vars
    /\ UNCHANGED node_vars
    /\ UNCHANGED conversion

\* NFA.to_DFA followed by the first line of DFA.simulate
ConvertToDFA ==
    /\ nfa_phase = "read"
    /\ dfa' = to_DFA(nfa)
    /\ curr_state' = IF dfa'.status = "ok" THEN dfa'.start_state ELSE 0
    /\ nfa_phase' = IF dfa'.status = "ok" THEN "simulating" ELSE "failed"
    /\ UNCHANGED <<nfa, str, regex_obj>>
    /\ UNCHANGED lex_vars
    /\ UNCHANGED file_vars
    /\ UNCHANGED node_vars
    /\ UNCHANGED conversion

\* one iteration of the loop of DFA.simulate (dfa.py lines 192-194)
SimulateStep(ch) ==
    /\ nfa_phase = "simulating"
    /\ Len(str) < MaxLen
    /\ str' = Append(str, ch)
    /\ IF has_transition(dfa, curr_state, ch)
       THEN /\ curr_state' = transition(dfa, curr_state, ch)
            /\ UNCHANGED nfa_phase
       ELSE /\ nfa_phase' = "KeyError"
            /\ UNCHANGED curr_state
    /\ UNCHANGED <<nfa, dfa, regex_obj>>
    /\ UNCHANGED lex_vars
    /\ UNCHANGED file_vars
    /\ UNCHANGED node_vars
    /\ UNCHANGED conversion

NextNFA ==
    \/ \E s \in NfaStates, x \in Range(Alphabet) \cup {Epsilon}, t \in NfaStates :
           ReadTransition(s, x, t)
    \/ \E s \in NfaStates, acc \in SUBSET NfaStates : ReadStartAndAccept(s, acc)
    \/ ConvertToDFA
    \/ \E ch \in Range(Alphabet) : SimulateStep(ch)

SpecNFA == InitNFA /\ [][NextNFA]_vars

\* the value DFA.simulate returns for the string consumed so far
simulate_result == curr_state \in dfa.accept_states

(***************************************************************************)
(* NFA.to_DFA with the worklist loop of NFA._nfa_conversion taken one      *)
(* iteration at a time.  The accept line plays no part in the loop, so the *)
(* descriptions read here name the start state on it.                      *)
(***************************************************************************)
\* NFA.to_DFA up to the `while queue` of _nfa_conversion (nfa.py lines
\* 440-444 and 243-264)
BeginConversion ==
    /\ nfa_phase = "read"
    /\ conversion' = conversion_start(_get_epsilon_closure(nfa, nfa.start_state))
    /\ nfa_phase' = "converting"
    /\ UNCHANGED <<nfa, dfa, curr_state, str, regex_obj>>
    /\ UNCHANGED lex_vars
    /\ UNCHANGED file_vars
    /\ UNCHANGED node_vars

\* one iteration of `while queue` (nfa.py lines 266-311); the guard on
\* number_of_states caps the counter
ConversionStep ==
    /\ nfa_phase = "converting"
    /\ conversion.queue # <<>>
    /\ conversion.number_of_states <= 2 ^ NumNfaStates
    /\ conversion' = conversion_step(nfa, conversion)
    /\ UNCHANGED <<nfa, nfa_phase, dfa, curr_state, str, regex_obj>>
    /\ UNCHANGED lex_vars
    /\ UNCHANGED file_vars
    /\ UNCHANGED node_vars

\* the loop is left: the rest of _nfa_conversion, _finalize_dfa and the
\* return of to_DFA (nfa.py lines 313-333 and 445-447)
FinishConversion ==
    /\ nfa_phase = "converting"
    /\ conversion.queue = <<>>
    /\ dfa' = _finalize_dfa(nfa, conversion_end(nfa, conversion))
    /\ curr_state' = IF dfa'.status = "ok" THEN dfa'.start_state ELSE 0
    /\ nfa_phase' = IF dfa'.status = "ok" THEN "simulating" ELSE "failed"
    /\ UNCHANGED <<nfa, str, conversion, regex_obj>>
    /\ UNCHANGED lex_vars
    /\ UNCHANGED file_vars
    /\ UNCHANGED node_vars

NextConversion ==
    \/ \E s \in NfaStates, x \in Range(Alphabet) \cup {Epsilon}, t \in NfaStates :
           ReadTransition(s, x, t)
    \/ \E s \in NfaStates : ReadStartAndAccept(s, {s})
    \/ BeginConversion
    \/ ConversionStep
    \/ FinishConversion

\* the loop is sequential code: an iteration that can run does run
SpecConversion ==
    InitNFA /\ [][NextConversion]_vars /\ WF_vars(ConversionStep)

(***************************************************************************)
(* A DFA description is written, DFA(filename=...) reads it, and a string  *)
(* is run through the DFA one symbol at a time.                            *)
(***************************************************************************)
\* the first lines of the descriptions
CountLines == {<<<<"1">>>>, <<<<"2">>>>, <<<<"x">>>>, <<>>}

\* the alphabet lines of the descriptions
AlphabetLines == {<<<<"a">>>>}

\* the state tokens of the descriptions
StateTokens == {<<"1">>, <<"2">>, <<"x">>}

\* the symbol tokens of the descriptions: "c" is outside the alphabet
SymbolTokens == {<<"'", "a", "'">>, <<"'", "c", "'">>}

\* the later lines: transition records and lists of up to two states
BodyLines ==
    {<<s, x, t>> : s \in StateTokens, x \in SymbolTokens, t \in StateTokens}
        \cup {<<>>}
        \cup {<<s>> : s \in StateTokens}
        \cup {<<s, t>> : s \in StateTokens, t \in StateTokens}

InitDFA ==
    /\ dfa_file = <<>>
    /\ nfa = NoNFA
    /\ nfa_phase = "description"
    /\ dfa = NoDFA
    /\ curr_state = 0
    /\ str = <<>>
    /\ conversion = NoConversion
    /\ regex_obj = NoRegEx
    /\ LexIdle
    /\ NodeIdle

\* one more line of the description that `open(filename, 'r')` will read
WriteLine(line) ==
    /\ nfa_phase = "description"
    /\ Len(dfa_file) < MaxFileLines
    /\ line \in (IF Len(dfa_file) = 0 THEN CountLines
                 ELSE IF Len(dfa_file) = 1 THEN AlphabetLines
                 ELSE BodyLines)
    /\ dfa_file' = Append(dfa_file, line)
    /\ UNCHANGED <<nfa, nfa_phase, dfa, curr_state, str, regex_obj>>
    /\ UNCHANGED lex_vars
    /\ UNCHANGED node_vars
    /\ UNCHANGED conversion

\* DFA(filename=...) followed by the first line of DFA.simulate
ConstructDFA ==
    /\ nfa_phase = "description"
    /\ dfa' = _read_dfa_data_from_file(dfa_file)
    /\ curr_state' = IF dfa'.status = "ok" THEN dfa'.start_state ELSE 0
    /\ nfa_phase' = IF dfa'.status = "ok" THEN "simulating" ELSE "raised"
    /\ UNCHANGED <<nfa, str, regex_obj, dfa_file>>
    /\ UNCHANGED lex_vars
    /\ UNCHANGED node_vars
    /\ UNCHANGED conversion

NextDFA ==
    \/ \E line \in CountLines \cup AlphabetLines \cup BodyLines : WriteLine(line)
    \/ ConstructDFA
    \/ \E ch \in Range(Alphabet) : SimulateStep(ch)

SpecDFA == InitDFA /\ [][NextDFA]_vars

(***************************************************************************)
(* Nodes are constructed and given children, as the parser does it.        *)
(***************************************************************************)
\* the (value, type) pairs of the nodes: an operand and an operator
NodeKinds == {<<"a", 0>>, <<"|", 1>>}

\* the number of add_child calls so far: each call puts one child in a list
RECURSIVE TotalChildren(_)
TotalChildren(lists) ==
    IF lists = <<>> THEN 0 ELSE Len(Head(lists)) + TotalChildren(Tail(lists))

InitNode ==
    /\ NodeIdle
    /\ regex_obj = NoRegEx
    /\ NfaIdle
    /\ LexIdle
    /\ FileIdle

\* Node(...) (tree.py lines 7-20)
ConstructNode(kind, children) ==
    /\ Len(node_objects) < MaxNodes
    /\ LET objs == Node_init([nodes |-> node_objects, lists |-> list_objects],
                              kind[1], children, kind[2])
       IN /\ node_objects' = objs.nodes
          /\ list_objects' = objs.lists
    /\ node_call' = [op |-> "Node", self |-> Len(node_objects) + 1]
    /\ UNCHANGED regex_obj
    /\ UNCHANGED nfa_vars
    /\ UNCHANGED lex_vars
    /\ UNCHANGED file_vars

\* self.add_child(child, insert) (tree.py lines 22-32)
CallAddChild(self, child, insert) ==
    /\ self \in 1..Len(node_objects)
    /\ child \in 1..Len(node_objects)
    /\ TotalChildren(list_objects) < MaxAddChild
    /\ LET objs == Node_add_child([nodes |-> node_objects, lists |-> list_objects],
                                   self, child, insert)
       IN /\ node_objects' = objs.nodes
          /\ list_objects' = objs.lists
    /\ node_call' = [op |-> "add_child", self |-> self]
    /\ UNCHANGED regex_obj
    /\ UNCHANGED nfa_vars
    /\ UNCHANGED lex_vars
    /\ UNCHANGED file_vars

NextNode ==
    \/ \E kind \in NodeKinds, children \in {"default", "[]"} : ConstructNode(kind, children)
    \/ \E self \in 1..MaxNodes, child \in 1..MaxNodes, insert \in BOOLEAN :
           CallAddChild(self, child, insert)

SpecNode == InitNode /\ [][NextNode]_vars

\* the children of the n-th Node object
ChildrenOf(n) == list_objects[node_objects[n].children]

(***************************************************************************)
(* A RegEx is constructed from a regular expression over Alphabet and      *)
(* strings are run through RegEx.simulate.                                 *)
(***************************************************************************)
\* the characters a regular expression is written with
RegexChars == {"a", "b", "(", ")", "*", "|", "e", "N", Backslash}

RECURSIVE StringsUpTo(_, _)
StringsUpTo(chars, n) ==
    IF n = 0 THEN {<<>>}
    ELSE LET shorter == StringsUpTo(chars, n - 1)
         IN shorter \cup {Append(s, ch) : s \in shorter, ch \in chars}

\* the expressions the documentation of the pipeline works through
ExampleRegexes ==
    {<<"(", "a", "|", "b", ")", "*", "a", "b", "b">>,
     <<"a", "|", "b", "c", "*">>,
     <<"(", "a", "|", "b", ")", "c">>,
     <<"(", "a", "*", ")", "*">>,
     <<"a", "|", "b", "a", "*">>,
     <<"(", "a", "|", "b", ")", "a">>,
     <<"(", "a", "|", "b", ")", "*">>,
     <<"(", "b", "|", "a", ")", "*">>}

InitRegex ==
    /\ regex_obj \in {[status |-> "unbuilt", regex_string |-> r] :
                     r \in StringsUpTo(RegexChars, MaxRegexLen) \cup ExampleRegexes}
    /\ NfaIdle
    /\ LexIdle
    /\ FileIdle
    /\ NodeIdle

\* RegEx.__init__ (regex.py lines 55-65)
ConstructRegEx ==
    /\ regex_obj.status = "unbuilt"
    /\ regex_obj' = RegEx(Alphabet, regex_obj.regex_string)
    /\ nfa_phase' = IF regex_obj'.status = "ok" THEN "constructed" ELSE "raised"
    /\ UNCHANGED <<nfa, dfa, curr_state, str>>
    /\ UNCHANGED lex_vars
    /\ UNCHANGED file_vars
    /\ UNCHANGED node_vars
    /\ UNCHANGED conversion

\* RegEx.simulate up to the first line of DFA.simulate (regex.py lines 232-235)
RegExSimulate ==
    /\ nfa_phase = "constructed"
    /\ IF regex_obj.invalid
       THEN /\ nfa_phase' = "invalid"
            /\ UNCHANGED <<nfa, dfa, curr_state>>
       ELSE /\ nfa' = regex_obj.nfa
            /\ dfa' = to_DFA(regex_obj.nfa)
            /\ curr_state' = dfa'.start_state
            /\ nfa_phase' = "simulating"
    /\ UNCHANGED <<str, regex_obj>>
    /\ UNCHANGED lex_vars
    /\ UNCHANGED file_vars
    /\ UNCHANGED node_vars
    /\ UNCHANGED conversion

\* RegEx.simulate of an invalid expression returns False whatever the string
InvalidSimulateStep(ch) ==
    /\ nfa_phase = "invalid"
    /\ Len(str) < MaxLen
    /\ str' = Append(str, ch)
    /\ UNCHANGED <<nfa, nfa_phase, dfa, curr_state, regex_obj>>
    /\ UNCHANGED lex_vars
    /\ UNCHANGED file_vars
    /\ UNCHANGED node_vars
    /\ UNCHANGED conversion

NextRegex ==
    \/ ConstructRegEx
    \/ RegExSimulate
    \/ \E ch \in Range(Alphabet) : SimulateStep(ch)
    \/ \E ch \in Range(Alphabet) : InvalidSimulateStep(ch)

SpecRegex == InitRegex /\ [][NextRegex]_vars

\* the value RegEx.simulate returns for the string consumed so far
regex_simulate_result ==
    IF nfa_phase = "invalid" THEN FALSE ELSE simulate_result

(***************************************************************************)
(* A Lex is constructed from a definition file and a source file and       *)
(* next_token is called on it.                                             *)
(***************************************************************************)
\* the token-type names of the definition files
TokenTypes == {"A", "B"}

\* the regular expressions of the definition files
TokenRegexes ==
    {<<"a">>,
     <<"a", "*">>,
     <<"b", "*">>,
     <<"a", "|", "b">>,
     <<"(", "a", "|", "b", ")", "*">>,
     <<"(", "a">>}

\* the characters of the source files: "c" is outside Alphabet
SourceChars == {"a", "b", "c", Separator, Newline}

InitLex ==
    /\ generated_dfas = <<>>
    /\ source_file_data = <<>>
    /\ last_num_token = 0
    /\ lex_phase = "definitions"
    /\ last_call = NoCall
    /\ regex_obj = NoRegEx
    /\ NfaIdle
    /\ FileIdle
    /\ NodeIdle

\* Lex._pre_process_regex for one line of the definition file (lexer.py lines
\* 95-103); a RegEx that has no nfa makes line 64 raise, Lex.__init__ prints
\* the exception and the source file is never read
PreProcessRegex(token_type, regex_str) ==
    /\ lex_phase = "definitions"
    /\ last_num_token < MaxTokens
    /\ LET reg == RegEx(Alphabet, regex_str)
       IN IF reg.status = "ok" /\ ~reg.invalid
          THEN /\ generated_dfas' =
                      dict_store(generated_dfas,
                                 TokenValue(to_DFA(reg.nfa), token_type, last_num_token))
               /\ last_num_token' = last_num_token + 1
               /\ UNCHANGED lex_phase
          ELSE /\ lex_phase' = "ready"
               /\ UNCHANGED <<generated_dfas, last_num_token>>
    /\ UNCHANGED <<source_file_data, last_call, regex_obj>>
    /\ UNCHANGED nfa_vars
    /\ UNCHANGED file_vars
    /\ UNCHANGED node_vars

\* the end of the definition file, then Lex._read_source_file
ReadSourceFile(content) ==
    /\ lex_phase = "definitions"
    /\ source_file_data' = _read_source_file(content)
    /\ lex_phase' = "ready"
    /\ UNCHANGED <<generated_dfas, last_num_token, last_call, regex_obj>>
    /\ UNCHANGED nfa_vars
    /\ UNCHANGED file_vars
    /\ UNCHANGED node_vars

\* Lex.next_token
NextToken ==
    /\ lex_phase = "ready"
    /\ last_call' = next_token(generated_dfas, source_file_data)
    /\ source_file_data' = last_call'.data
    /\ UNCHANGED <<generated_dfas, last_num_token, lex_phase, regex_obj>>
    /\ UNCHANGED nfa_vars
    /\ UNCHANGED file_vars
    /\ UNCHANGED node_vars

NextLex ==
    \/ \E token_type \in TokenTypes, regex_str \in TokenRegexes :
           PreProcessRegex(token_type, regex_str)
    \/ \E content \in StringsUpTo(SourceChars, MaxSrcLen) : ReadSourceFile(content)
    \/ NextToken

SpecLex == InitLex /\ [][NextLex]_vars

(***************************************************************************)
(* Reference semantics                                                     *)
(***************************************************************************)
\* the targets of the edges of NFA n that leave a state of S on symbol x
EdgeTargets(n, S, x) ==
    {t \in 1..n.number_of_states :
        \E s \in S : /\ s \in DOMAIN n.transition_function
                     /\ x \in DOMAIN n.transition_function[s]
                     /\ t \in n.transition_function[s][x]}

\* the states reachable from S along at most k epsilon edges
RECURSIVE EpsReach(_, _, _)
EpsReach(n, S, k) ==
    IF k = 0 THEN S ELSE EpsReach(n, S \cup EdgeTargets(n, S, Epsilon), k - 1)

\* the states in which some run of NFA n on w can end
RECURSIVE RunStates(_, _)
RunStates(n, w) ==
    IF w = <<>> THEN EpsReach(n, {n.start_state}, n.number_of_states)
    ELSE EpsReach(n,
                  EdgeTargets(n, RunStates(n, SubSeq(w, 1, Len(w) - 1)), w[Len(w)]),
                  n.number_of_states)

NfaAccepts(n, w) == RunStates(n, w) \cap n.accept_states # {}

\* w is a concatenation of zero or more strings that NFA n accepts
RECURSIVE InStarOf(_, _)
InStarOf(n, w) ==
    \/ w = <<>>
    \/ \E k \in 1..Len(w) :
           /\ NfaAccepts(n, SubSeq(w, 1, k))
           /\ InStarOf(n, SubSeq(w, k + 1, Len(w)))

\* the state-set that the subset construction goes to from S on symbol x
SubsetStep(n, S, x) == EpsReach(n, EdgeTargets(n, S, x), n.number_of_states)

\* the state-sets of the subset construction: the closure of the start state
\* and every set a step leads to from one of them, the empty set included
RECURSIVE SubsetClosure(_, _)
SubsetClosure(n, sets) ==
    LET more == sets \cup {SubsetStep(n, S, x) : S \in sets \ {{}}, x \in Range(n.alphabet)}
    IN IF more = sets THEN sets ELSE SubsetClosure(n, more)

ReachableSets(n) ==
    SubsetClosure(n, {EpsReach(n, {n.start_state}, n.number_of_states)})

\* the language of an AST under union, concatenation and Kleene star
RECURSIVE Matches(_, _)
Matches(node, w) ==
    IF node.type = 0
    THEN IF node.is_symbol THEN w = <<node.value>>
         ELSE node.value = "e" /\ w = <<>>
    ELSE IF node.value = "|"
    THEN Matches(node.children[1], w) \/ Matches(node.children[2], w)
    ELSE IF node.value = CONCAT
    THEN \E k \in 0..Len(w) :
             /\ Matches(node.children[1], SubSeq(w, 1, k))
             /\ Matches(node.children[2], SubSeq(w, k + 1, Len(w)))
    ELSE \/ w = <<>>
         \/ \E k \in 1..Len(w) :
                /\ Matches(node.children[1], SubSeq(w, 1, k))
                /\ Matches(node, SubSeq(w, k + 1, Len(w)))

\* A reference parser for the grammar
\*   union  ::= concat ( '|' concat )*       concat ::= star star*
\*   star   ::= atom '*'*                    atom   ::= operand | '(' union ')'
\* over the tokens of an expression; a result is [ok, node, pos]
RefFail == [ok |-> FALSE]

RefIsOperand(tok) ==
    \/ Len(tok) > 1
    \/ tok[1] \in {"e", "N"}
    \/ tok[1] \in Range(Alphabet) \ ReservedChars

RefOperand(tok) ==
    IF Len(tok) > 1 THEN Node(tok[2], <<>>, 0, TRUE)
    ELSE Node(tok[1], <<>>, 0, tok[1] \notin {"e", "N"})

RECURSIVE RefUnion(_, _), RefUnionRest(_, _), RefConcat(_, _), RefConcatRest(_, _),
          RefStar(_, _), RefStarRest(_, _), RefAtom(_, _)

RefAtom(ts, i) ==
    IF i > Len(ts) THEN RefFail
    ELSE IF ts[i] = <<"(">>
    THEN LET r == RefUnion(ts, i + 1)
         IN IF r.ok /\ r.pos <= Len(ts) /\ ts[r.pos] = <<")">>
            THEN [r EXCEPT !.pos = @ + 1]
            ELSE RefFail
    ELSE IF ts[i] \notin {<<")">>, <<"*">>, <<"|">>} /\ RefIsOperand(ts[i])
    THEN [ok |-> TRUE, node |-> RefOperand(ts[i]), pos |-> i + 1]
    ELSE RefFail

RefStarRest(ts, r) ==
    IF r.ok /\ r.pos <= Len(ts) /\ ts[r.pos] = <<"*">>
    THEN RefStarRest(ts, [ok |-> TRUE,
                          node |-> Node("*", <<r.node>>, 1, FALSE),
                          pos |-> r.pos + 1])
    ELSE r

RefStar(ts, i) == RefStarRest(ts, RefAtom(ts, i))

RefConcatRest(ts, r) ==
    IF r.ok /\ r.pos <= Len(ts) /\ ts[r.pos] \notin {<<")">>, <<"*">>, <<"|">>}
    THEN LET s == RefStar(ts, r.pos)
         IN IF s.ok
            THEN RefConcatRest(ts, [ok |-> TRUE,
                                    node |-> Node(CONCAT, <<r.node, s.node>>, 1, FALSE),
                                    pos |-> s.pos])
            ELSE RefFail
    ELSE r

RefConcat(ts, i) == RefConcatRest(ts, RefStar(ts, i))

RefUnionRest(ts, r) ==
    IF r.ok /\ r.pos <= Len(ts) /\ ts[r.pos] = <<"|">>
    THEN LET s == RefConcat(ts, r.pos + 1)
         IN IF s.ok
            THEN RefUnionRest(ts, [ok |-> TRUE,
                                   node |-> Node("|", <<r.node, s.node>>, 1, FALSE),
                                   pos |-> s.pos])
            ELSE RefFail
    ELSE r

RefUnion(ts, i) == RefUnionRest(ts, RefConcat(ts, i))

\* the characters of an expression as tokens: a backslash takes the next
\* character with it
RECURSIVE RefTokens(_)
RefTokens(s) ==
    IF s = <<>> THEN <<>>
    ELSE IF Head(s) = Backslash /\ Len(s) >= 2
    THEN <<SubSeq(s, 1, 2)>> \o RefTokens(SubSeq(s, 3, Len(s)))
    ELSE <<SubSeq(s, 1, 1)>> \o RefTokens(Tail(s))

\* the AST of a well-formed expression: every character belongs to a token
\* of the grammar and the whole token list is one union
RefParse(s) ==
    LET ts == RefTokens(s)
        r == RefUnion(ts, 1)
    IN IF /\ \A i \in 1..Len(ts) :
                 IF Len(ts[i]) > 1
                 THEN ts[i][2] \in EscapableChars \cup {Backslash}
                 ELSE ts[i][1] \in ReservedChars \cup Range(Alphabet)
          /\ r.ok
          /\ r.pos = Len(ts) + 1
       THEN r
       ELSE RefFail

\* How the operator-precedence parse of a token list ends when only the depth
\* of the operand stack is followed: a reduction of an operator of arity k
\* needs k operands and leaves one. The outcomes are
\*   "underflow"  a reduction finds fewer operands than the arity
\*   "no_open"    a ')' finds no '(' on the operator stack
\*   "open_left"  the end of the input finds a '(' on the operator stack
\*   "empty"      the end of the input leaves no operand
\*   "unknown"    a token is neither an operand, an operator nor a parenthesis
\*   "ok"         otherwise
ShuntArity(operator) == IF operator = "*" THEN 1 ELSE 2

ShuntPrecedence(operator) ==
    IF operator = "|" THEN 0 ELSE IF operator = CONCAT THEN 1 ELSE 2

ShuntIsOperator(tok) == tok \in {<<"*">>, <<"|">>, <<CONCAT>>}

\* pop and reduce down to the nearest '('
RECURSIVE ShuntClose(_, _)
ShuntClose(depth, ops) ==
    IF ops = <<>> THEN [outcome |-> "no_open"]
    ELSE IF Top(ops) = "(" THEN [outcome |-> "ok", depth |-> depth, ops |-> Pop(ops)]
    ELSE IF depth < ShuntArity(Top(ops)) THEN [outcome |-> "underflow"]
    ELSE ShuntClose(depth - ShuntArity(Top(ops)) + 1, Pop(ops))

\* pop and reduce the operators of precedence >= that of operator
RECURSIVE ShuntReduceFor(_, _, _)
ShuntReduceFor(operator, depth, ops) ==
    IF \/ ops = <<>>
       \/ Top(ops) = "("
       \/ ShuntPrecedence(Top(ops)) < ShuntPrecedence(operator)
    THEN [outcome |-> "ok", depth |-> depth, ops |-> Append(ops, operator)]
    ELSE IF depth < ShuntArity(Top(ops)) THEN [outcome |-> "underflow"]
    ELSE ShuntReduceFor(operator, depth - ShuntArity(Top(ops)) + 1, Pop(ops))

\* pop and reduce everything at the end of the input
RECURSIVE ShuntEnd(_, _)
ShuntEnd(depth, ops) ==
    IF ops = <<>> THEN IF depth = 0 THEN "empty" ELSE "ok"
    ELSE IF Top(ops) = "(" THEN "open_left"
    ELSE IF depth < ShuntArity(Top(ops)) THEN "underflow"
    ELSE ShuntEnd(depth - ShuntArity(Top(ops)) + 1, Pop(ops))

RECURSIVE ShuntFrom(_, _, _, _)
ShuntFrom(tokens, i, depth, ops) ==
    IF i > Len(tokens) THEN ShuntEnd(depth, ops)
    ELSE LET tok == tokens[i]
         IN IF tok = <<"(">> THEN ShuntFrom(tokens, i + 1, depth, Append(ops, "("))
            ELSE IF tok = <<")">>
            THEN LET r == ShuntClose(depth, ops)
                 IN IF r.outcome # "ok" THEN r.outcome
                    ELSE ShuntFrom(tokens, i + 1, r.depth, r.ops)
            ELSE IF ShuntIsOperator(tok)
            THEN LET r == ShuntReduceFor(tok[1], depth, ops)
                 IN IF r.outcome # "ok" THEN r.outcome
                    ELSE ShuntFrom(tokens, i + 1, r.depth, r.ops)
            ELSE IF RefIsOperand(tok) THEN ShuntFrom(tokens, i + 1, depth + 1, ops)
            ELSE "unknown"

\* the outcome for the token list the parser of regex_string works on
ShuntOutcome(regex_string) ==
    ShuntFrom(insert_concat(tokenize(regex_string, Alphabet), Alphabet), 1, 0, <<>>)

\* a token after which an operand is complete / with which an operand begins
RightProducing(tok) == tok \in {<<")">>, <<"*">>} \/ RefIsOperand(tok)

LeftProducing(tok) == tok = <<"(">> \/ RefIsOperand(tok)

\* the concatenation operator stands between every right-producing token and
\* the left-producing token that follows it, and nowhere else
ConcatComplete(tokens) ==
    \A i \in 1..Len(tokens) :
        /\ i < Len(tokens) => ~(RightProducing(tokens[i]) /\ LeftProducing(tokens[i + 1]))
        /\ tokens[i] = <<CONCAT>> =>
               /\ 1 < i /\ i < Len(tokens)
               /\ RightProducing(tokens[i - 1])
               /\ LeftProducing(tokens[i + 1])

\* regex_string is an expression of the grammar and the token list the parser
\* works on is its token list with every concatenation written out
WellFormedTokens(regex_string) ==
    LET tokens == insert_concat(tokenize(regex_string, Alphabet), Alphabet)
    IN /\ RefParse(regex_string).ok
       /\ SelectSeq(tokens, LAMBDA tok : tok # <<CONCAT>>) = RefTokens(regex_string)
       /\ ConcatComplete(tokens)

\* the decimal numeral of n
RECURSIVE decimal(_)
decimal(n) ==
    IF n < 10 THEN <<DigitChars[n + 1]>>
    ELSE decimal(n \div 10) \o <<DigitChars[(n % 10) + 1]>>

\* The layout of a DFA description: the state count N on line 1, the
\* alphabet on line 2, the transition records (the three-token lines from
\* line 3 on), then the start-state line and the accept-state line.
CountIsNumeric(file) ==
    /\ Len(file) >= 1
    /\ Len(file[1]) = 1
    /\ \A i \in 1..Len(file[1][1]) : InSeq(file[1][1][i], DigitChars)

StateCount(file) == CHOOSE n \in 0..99 : decimal(n) = file[1][1]

FileAlphabet(file) == IF Len(file) >= 2 THEN Range(line_string(file[2])) ELSE {}

TransitionRecords(file) ==
    {k \in 3..Len(file) : \A j \in 3..k : Len(file[j]) = 3}

StartLine(file) == 3 + Cardinality(TransitionRecords(file))

StateInRange(file, tok) == \E n \in 1..StateCount(file) : tok = decimal(n)

SymbolInAlphabet(file, tok) ==
    \E x \in FileAlphabet(file) : tok = <<"'", x, "'">>

\* the cases of a malformed description
NonNumericCount(file) == ~CountIsNumeric(file)

BadTransitionRecord(file) ==
    /\ CountIsNumeric(file)
    /\ \E k \in TransitionRecords(file) :
           \/ ~StateInRange(file, file[k][1])
           \/ ~StateInRange(file, file[k][3])
           \/ ~SymbolInAlphabet(file, file[k][2])

MissingStartLine(file) ==
    /\ CountIsNumeric(file)
    /\ StartLine(file) > Len(file) \/ file[StartLine(file)] = <<>>

BadStartOrAcceptState(file) ==
    /\ CountIsNumeric(file)
    /\ ~MissingStartLine(file)
    /\ \/ ~StateInRange(file, file[StartLine(file)][1])
       \/ /\ StartLine(file) + 1 <= Len(file)
          /\ \E i \in 1..Len(file[StartLine(file) + 1]) :
                 ~StateInRange(file, file[StartLine(file) + 1][i])

ExtraContent(file) ==
    /\ CountIsNumeric(file)
    /\ Len(file) > StartLine(file) + 1

Malformed(file) ==
    \/ NonNumericCount(file)
    \/ BadTransitionRecord(file)
    \/ MissingStartLine(file)
    \/ BadStartOrAcceptState(file)
    \/ ExtraContent(file)

\* DFA(filename=...) has run on dfa_file
DFAConstructed == nfa_phase \in {"simulating", "raised", "KeyError"}

\* RegEx.__init__ has run on regex_obj
Constructed == regex_obj.status \notin {"none", "unbuilt"}

\* the parse of regex_obj ended with InvalidExpression (which __init__ catches)
FailedWithInvalidExpression == regex_obj.status = "ok" /\ regex_obj.invalid

\* whether running w through DFA d from its start state ends in an accept
\* state; a character without a transition ends the run without acceptance
RECURSIVE DfaRun(_, _, _)
DfaRun(d, state, w) ==
    IF w = <<>> THEN state \in d.accept_states
    ELSE /\ state \in DOMAIN d.transition_function
         /\ Head(w) \in DOMAIN d.transition_function[state]
         /\ DfaRun(d, d.transition_function[state][Head(w)], Tail(w))

DfaAccepts(d, w) == DfaRun(d, d.start_state, w)

RECURSIVE RemoveSeparators(_)
RemoveSeparators(s) ==
    IF s = <<>> THEN <<>>
    ELSE IF Head(s) = Separator THEN RemoveSeparators(Tail(s))
    ELSE <<Head(s)>> \o RemoveSeparators(Tail(s))

\* the prefix of length k of input ends in a character of a lexeme and,
\* separators aside, is a string DFA d accepts
AcceptedAt(d, input, k) ==
    /\ input[k] # Separator
    /\ DfaAccepts(d, RemoveSeparators(SubSeq(input, 1, k)))

\* no separator of the first k characters follows an accepted prefix
SeparatorBounded(d, input, k) ==
    \A j \in 1..(k - 1) :
        input[j] = Separator => \A i \in 1..(j - 1) : ~AcceptedAt(d, input, i)

\* the lengths of the separator-bounded prefixes of input that d accepts
MunchLens(d, input) ==
    {k \in 1..Len(input) : AcceptedAt(d, input, k) /\ SeparatorBounded(d, input, k)}

AllMunchLens(dfas, input) ==
    UNION {MunchLens(dfas[i].dfa, input) : i \in 1..Len(dfas)}

\* the token values of generated_dfas in another iteration order
Reordered(dfas, p) == [i \in 1..Len(dfas) |-> dfas[p[i]]]

(***************************************************************************)
(* Claims                                                                  *)
(***************************************************************************)
\* C1: for a regex that parses, RegEx.simulate(s) is True iff s is in the
\* language of the regex under union / concatenation / Kleene star
C1_RoundTrip ==
    (/\ nfa_phase = "simulating"
     /\ regex_obj.status = "ok"
     /\ RefParse(regex_obj.regex_string).ok)
        => (regex_simulate_result
                <=> Matches(RefParse(regex_obj.regex_string).node, str))

\* C2: the DFA that to_DFA returns accepts the string run through it iff the
\* NFA has an accepting run on that string
C2_Equivalent ==
    nfa_phase = "simulating" => (simulate_result <=> NfaAccepts(nfa, str))

C2_Witness ==
    /\ nfa_phase = "simulating"
    /\ Len(str) = 2
    /\ simulate_result
    /\ nfa.start_state = 1
    /\ nfa.accept_states = {2}
    /\ nfa.transition_function[1][Epsilon] = {2}

\* C3: the DFA that to_DFA returns has a transition for every state of
\* 1..number_of_states and every symbol, every target, the start state and
\* every accept state lie in 1..number_of_states, and the states with an
\* entry are exactly 1..number_of_states
C3_TotalContiguous ==
    dfa.status = "ok" =>
        /\ DOMAIN dfa.transition_function = 1..dfa.number_of_states
        /\ \A state \in 1..dfa.number_of_states :
               /\ DOMAIN dfa.transition_function[state] = Range(dfa.alphabet)
               /\ \A symbol \in Range(dfa.alphabet) :
                      dfa.transition_function[state][symbol] \in 1..dfa.number_of_states
        /\ dfa.start_state \in 1..dfa.number_of_states
        /\ dfa.accept_states \subseteq 1..dfa.number_of_states

C3_Witness ==
    /\ dfa.status = "ok"
    /\ nfa.start_state = 2
    /\ dfa.start_state = 1
    /\ dfa.accept_states = {1}

C5_MaximalMunch ==
    last_call.kind = "token" =>
        /\ \A k \in AllMunchLens(generated_dfas, last_call.input) :
               k <= last_call.str_len
        /\ \E i \in 1..Len(generated_dfas) :
               /\ generated_dfas[i].type = last_call.type
               /\ last_call.str_len \in MunchLens(generated_dfas[i].dfa, last_call.input)

C5_Witness ==
    /\ last_call.kind = "token"
    /\ last_call.str_len = 2
    /\ \E i \in 1..Len(generated_dfas) :
           MunchLens(generated_dfas[i].dfa, last_call.input) = {1}

\* C6: when several token types reach the maximal match length, the returned
\* type is the one of smallest order, whatever the iteration order of the DFAs
C6_PriorityTieBreak ==
    last_call.kind = "token" =>
        /\ \A i \in 1..Len(generated_dfas) :
               last_call.str_len \in MunchLens(generated_dfas[i].dfa, last_call.input)
                   => last_call.order <= generated_dfas[i].order
        /\ \A p \in Permutations(1..Len(generated_dfas)) :
               LET other == next_token(Reordered(generated_dfas, p), last_call.input)
               IN other.kind = "token" /\ other.type = last_call.type

C6_Witness ==
    /\ last_call.kind = "token"
    /\ Len(generated_dfas) = 2
    /\ generated_dfas[1].order > generated_dfas[2].order
    /\ \A i \in 1..2 :
           last_call.str_len \in MunchLens(generated_dfas[i].dfa, last_call.input)

\* C7: a next_token call on an input of separators only (or on no input)
\* signals EndOfInput
C7_EndOfInput ==
    (last_call.kind # "none" /\ RemoveSeparators(last_call.input) = <<>>)
        => last_call.kind = "EOFError"

\* C8: a next_token call on an input with a non-separator character of which
\* no token DFA accepts a prefix raises InvalidToken
C8_InvalidToken ==
    (/\ last_call.kind # "none"
     /\ RemoveSeparators(last_call.input) # <<>>
     /\ AllMunchLens(generated_dfas, last_call.input) = {})
        => last_call.kind = "InvalidToken"

\* C9: every next_token call ends with a token, EndOfInput or InvalidToken
C9_ThreeOutcomes ==
    last_call.kind \in {"none", "token", "EOFError", "InvalidToken"}

\* C10: a next_token call that returns a token with winning length L leaves
\* the input without its first L characters, or empty if those that remain
\* are all separators, and the lexeme is the first L characters without the
\* separators
C10_Consumption ==
    last_call.kind = "token" =>
        LET L == last_call.str_len
            old == last_call.input
        IN /\ L \in 1..Len(old)
           /\ IF \A i \in (L + 1)..Len(old) : old[i] = Separator
              THEN source_file_data = <<>>
              ELSE source_file_data = [i \in 1..(Len(old) - L) |-> old[i + L]]
           /\ last_call.lexeme = RemoveSeparators([i \in 1..L |-> old[i]])

C10_Witness ==
    /\ last_call.kind = "token"
    /\ Len(last_call.lexeme) < last_call.str_len
    /\ source_file_data # <<>>

\* the characters that the last next_token call left unconsumed are all
\* separators (or there are none)
OnlySeparatorsLeft ==
    \A i \in (last_call.str_len + 1)..Len(last_call.input) :
        last_call.input[i] = Separator

\* C11: after a next_token call that returns a token and leaves only
\* separators (or nothing), source_file_data is empty and the next next_token
\* call raises EOFError
C11_NormalisedThenEOF ==
    [][(last_call.kind = "token" /\ OnlySeparatorsLeft)
           => (source_file_data = <<>> /\ last_call'.kind = "EOFError")]_vars

C11_Witness ==
    /\ last_call.kind = "token"
    /\ Len(last_call.input) > last_call.str_len
    /\ OnlySeparatorsLeft
    /\ source_file_data = <<>>

\* C12: when a reduction finds fewer operands than the arity of its operator,
\* or the end of the input finds a '(' on the operator stack, the parse fails
\* with InvalidExpression
C12_UnderflowIsInvalidExpression ==
    (Constructed /\ ShuntOutcome(regex_obj.regex_string) \in {"underflow", "open_left"})
        => FailedWithInvalidExpression

\* C13: when a ')' finds no '(' on the operator stack, the parse fails with
\* InvalidExpression
C13_UnmatchedCloseIsInvalidExpression ==
    (Constructed /\ ShuntOutcome(regex_obj.regex_string) = "no_open")
        => FailedWithInvalidExpression

\* the parse of regex_obj.regex_string raises InvalidExpression
ParseRaisesInvalidExpression ==
    _empty_operator_stack(_parse_regex(regex_obj.regex_string, Alphabet)).status
        = "InvalidExpression"

\* C14: a RegEx whose parse raises InvalidExpression is constructed without
\* an exception, is marked invalid, and simulate returns False on it
C14_InvalidNeverMatches ==
    (Constructed /\ ParseRaisesInvalidExpression)
        => /\ regex_obj.status = "ok"
           /\ regex_obj.invalid
           /\ nfa_phase \in {"constructed", "invalid"}
           /\ nfa_phase = "invalid" => ~regex_simulate_result

C14_Witness ==
    /\ Constructed
    /\ ParseRaisesInvalidExpression
    /\ nfa_phase = "invalid"
    /\ Len(str) = 2

C16_ReadTotal ==
    (DFAConstructed /\ dfa.status = "ok")
        => \A state \in 1..dfa.number_of_states, symbol \in Range(dfa.alphabet) :
               has_transition(dfa, decimal(state), symbol)

\* C17: the construction of a DFA from a description with a non-numeric
\* state count, a transition record with a state outside 1..N or a symbol
\* outside the alphabet, no start-state line, a start or accept state outside
\* 1..N, or content after the accept-state line fails with FileFormatError
C17_MalformedIsFileFormatError ==
    (DFAConstructed /\ Malformed(dfa_file)) => dfa.status = "FileFormatError"

\* NFA.to_DFA has run on nfa
Converted == nfa_phase \in {"simulating", "failed", "KeyError"}

\* the NFA-state-set that state of the returned DFA stands for: the entry of
\* the int -> set mapping, one further when the reject state was pruned
CorrespondingStatesSet(state) ==
    LET c == _nfa_conversion(nfa, _get_epsilon_closure(nfa, nfa.start_state))
    IN c.int_mapping_reverse[IF 1 \in DOMAIN c.transition_function
                              THEN state ELSE state + 1]

\* C18: to_DFA returns a DFA for every NFA, also for one whose accept-state
\* line is empty, and a state of it is an accept state iff the NFA-state-set
\* it stands for contains an accept state of the NFA
C18_AcceptIff ==
    Converted =>
        /\ dfa.status = "ok"
        /\ \A state \in 1..dfa.number_of_states :
               state \in dfa.accept_states
                   <=> CorrespondingStatesSet(state) \cap nfa.accept_states # {}

\* C19: when no reachable state-set has an empty destination, the DFA that
\* to_DFA has just returned has one state per reachable state-set, start state 1, and
\* every key, target and accept state is the unpruned id minus one; when
\* some destination is empty, state 1 loops on every symbol, the start state
\* is 2 and there is one state more than reachable non-empty state-sets
C19_RejectStatePruning ==
    (Converted /\ dfa.status = "ok" /\ str = <<>>) =>
        LET sets == ReachableSets(nfa)
            \* the id the conversion gave each state-set before any pruning
            unpruned_id ==
                _nfa_conversion(nfa, _get_epsilon_closure(nfa, nfa.start_state)).int_mapping
        IN IF {} \notin sets
           THEN /\ dfa.number_of_states = Cardinality(sets)
                /\ dfa.start_state = 1
                /\ DOMAIN dfa.transition_function = {unpruned_id[S] - 1 : S \in sets}
                /\ \A S \in sets, x \in Range(nfa.alphabet) :
                       dfa.transition_function[unpruned_id[S] - 1][x]
                           = unpruned_id[SubsetStep(nfa, S, x)] - 1
                /\ dfa.accept_states =
                       {unpruned_id[S] - 1 : S \in {T \in sets : T \cap nfa.accept_states # {}}}
           ELSE /\ \A x \in Range(nfa.alphabet) : dfa.transition_function[1][x] = 1
                /\ dfa.start_state = 2
                /\ dfa.number_of_states = Cardinality(sets \ {{}}) + 1

C19_Witness ==
    /\ Converted
    /\ dfa.status = "ok"
    /\ {} \notin ReachableSets(nfa)
    /\ nfa.start_state = 1
    /\ dfa.accept_states = {1}
    /\ str = <<>>

\* C20: the NFA built for a Kleene-star node over the sub-NFA X starts in a
\* new state with an epsilon edge to X.start, has an epsilon edge from every
\* accept state of X to X.start, accepts in X.accept and the new state, and
\* accepts exactly the concatenations of zero or more strings of L(X)
C20_KleeneStar ==
    (/\ nfa_phase = "simulating"
     /\ regex_obj.status = "ok"
     /\ regex_obj.root_node.type = 1
     /\ regex_obj.root_node.value = "*")
        => LET X == depth_first_recursive(regex_obj.root_node.children[1], 0)
               new_state == X.last_state + 1
           IN /\ nfa.start_state = new_state
              /\ X.start_state \in EdgeTargets(nfa, {new_state}, Epsilon)
              /\ \A state \in Range(X.accept_states) :
                     X.start_state \in EdgeTargets(nfa, {state}, Epsilon)
              /\ nfa.accept_states = Range(X.accept_states) \cup {new_state}
              /\ NfaAccepts(nfa, str)
                     <=> InStarOf(_finalize_simple_nfa(Alphabet, X), str)

\* the NFA of a constructed, valid RegEx whose root is a concatenation node
RootIsConcat ==
    /\ Constructed
    /\ regex_obj.status = "ok"
    /\ ~regex_obj.invalid
    /\ regex_obj.root_node.type = 1
    /\ regex_obj.root_node.value = CONCAT

\* C21: the NFA built for a concatenation node over the sub-NFAs L and R
\* starts in L.start, accepts in R.accept, keeps every transition of L and of
\* R, and has an epsilon edge from every accept state of L to R.start
C21_Concatenation ==
    RootIsConcat =>
        LET L == depth_first_recursive(regex_obj.root_node.children[1], 0)
            R == depth_first_recursive(regex_obj.root_node.children[2], L.last_state)
            built == regex_obj.nfa
            Keeps(sub) ==
                \A state \in DOMAIN sub.transition_function :
                    \A symbol \in DOMAIN sub.transition_function[state] :
                        sub.transition_function[state][symbol]
                            \subseteq EdgeTargets(built, {state}, symbol)
        IN /\ built.start_state = L.start_state
           /\ built.accept_states = Range(R.accept_states)
           /\ Keeps(L)
           /\ Keeps(R)
           /\ \A state \in Range(L.accept_states) :
                  R.start_state \in EdgeTargets(built, {state}, Epsilon)

\* s without its j-th character
RemoveAt(s, j) == SubSeq(s, 1, j - 1) \o SubSeq(s, j + 1, Len(s))

\* a position before j at which DFA d accepts what it has read of input
EnteredAcceptBefore(d, input, j) == \E i \in 1..(j - 1) : AcceptedAt(d, input, i)

\* C22: in the scan of each token DFA over the input of a next_token call, a
\* separator that no accepting position precedes is transparent (the scan
\* ends as on the input without it, one position further), a separator that
\* an accepting position precedes ends the scan before it, and the returned
\* match does not reach past a separator that follows an accepting position
\* of the DFA of the returned type
C22_SeparatorScan ==
    last_call.kind # "none" =>
        LET input == last_call.input
        IN /\ \A k \in 1..Len(generated_dfas) :
                  LET d == generated_dfas[k].dfa
                      r == scan(d, input)
                  IN \A j \in 1..Len(input) :
                         input[j] = Separator =>
                             IF EnteredAcceptBefore(d, input, j)
                             THEN r.status = "ok" =>
                                      /\ r.reached_accept_state
                                      /\ r.longest_match_str_len < j
                             ELSE LET without == scan(d, RemoveAt(input, j))
                                  IN /\ without.status = r.status
                                     /\ r.status = "ok" =>
                                            /\ r.reached_accept_state
                                                   = without.reached_accept_state
                                            /\ r.reached_accept_state =>
                                                   r.longest_match_str_len
                                                       = without.longest_match_str_len + 1
           /\ last_call.kind = "token" =>
                  \A k \in 1..Len(generated_dfas) :
                      generated_dfas[k].type = last_call.type =>
                          SeparatorBounded(generated_dfas[k].dfa, input, last_call.str_len)

C22_Witness ==
    /\ last_call.kind = "token"
    /\ last_call.input = <<"a", Separator, "a">>
    /\ last_call.str_len = 1
    /\ \E k \in 1..Len(generated_dfas) :
           /\ generated_dfas[k].type = last_call.type
           /\ DfaAccepts(generated_dfas[k].dfa, <<"a", "a">>)

\* the states a SimpleNFA mentions
SimpleStates(simple_nfa) ==
    {simple_nfa.start_state}
        \cup Range(simple_nfa.accept_states)
        \cup DOMAIN simple_nfa.transition_function
        \cup UNION {UNION {simple_nfa.transition_function[state][symbol] :
                               symbol \in DOMAIN simple_nfa.transition_function[state]} :
                        state \in DOMAIN simple_nfa.transition_function}

\* the number of states of the Thompson construction of an AST: two for a
\* symbol, one for e and for N, one new state for a union and for a star,
\* none for a concatenation
RECURSIVE ThompsonStateCount(_)
ThompsonStateCount(node) ==
    IF node.children = <<>>
    THEN IF node.is_symbol THEN 2 ELSE 1
    ELSE IF node.value = "*" THEN ThompsonStateCount(node.children[1]) + 1
    ELSE ThompsonStateCount(node.children[1]) + ThompsonStateCount(node.children[2])
             + (IF node.value = "|" THEN 1 ELSE 0)

\* in the sub-NFAs built below node from counter value last_state, the states
\* of a right child are above those of the left child and the new state of a
\* union or star is above the states of its operands
RECURSIVE SiblingsApart(_, _)
SiblingsApart(node, last_state) ==
    IF node.children = <<>> THEN TRUE
    ELSE IF node.value = "*"
    THEN LET X == depth_first_recursive(node.children[1], last_state)
         IN /\ SiblingsApart(node.children[1], last_state)
            /\ \A state \in SimpleStates(X) :
                   depth_first_recursive(node, last_state).start_state > state
    ELSE LET L == depth_first_recursive(node.children[1], last_state)
             R == depth_first_recursive(node.children[2], L.last_state)
         IN /\ SiblingsApart(node.children[1], last_state)
            /\ SiblingsApart(node.children[2], L.last_state)
            /\ \A l \in SimpleStates(L), r \in SimpleStates(R) : r > l
            /\ node.value = "|" =>
                   \A state \in SimpleStates(L) \cup SimpleStates(R) :
                       depth_first_recursive(node, last_state).start_state > state

\* C23: in the NFA built from an AST the states of a right child lie above
\* those of its left sibling, the new state of an operator lies above the
\* states of its operands, and number_of_states is the number of states the
\* construction creates for the AST
C23_StateCounter ==
    (Constructed /\ regex_obj.status = "ok" /\ ~regex_obj.invalid) =>
        /\ SiblingsApart(regex_obj.root_node, 0)
        /\ regex_obj.nfa.number_of_states = ThompsonStateCount(regex_obj.root_node)

\* a token of the alphabet / a backslash and the character it escapes
IsLiteral(tok) == Len(tok) = 1 /\ InSeq(tok[1], Alphabet)

IsEscaped(tok) == Len(tok) = 2 /\ tok[1] = Backslash

\* the tokens that end an operand and the tokens that begin one
EndsOperand(tok) == IsLiteral(tok) \/ IsEscaped(tok) \/ tok \in {<<")">>, <<"*">>}

BeginsOperand(tok) == IsLiteral(tok) \/ IsEscaped(tok) \/ tok = <<"(">>

RECURSIVE Leaves(_), LeavesOfAll(_)
Leaves(node) ==
    IF node.children = <<>> THEN <<(<<node.value, node.is_symbol>>)>>
    ELSE LeavesOfAll(node.children)

LeavesOfAll(nodes) ==
    IF nodes = <<>> THEN <<>> ELSE Leaves(Head(nodes)) \o LeavesOfAll(Tail(nodes))

\* every operator node of an AST has as many children as its operator takes
RECURSIVE ArityRespected(_)
ArityRespected(node) ==
    /\ node.type = 1 => Len(node.children) = ShuntArity(node.value)
    /\ node.type = 0 => node.children = <<>>
    /\ \A i \in 1..Len(node.children) : ArityRespected(node.children[i])

\* the operands written in an expression, in the order they are written
OperandsWritten(regex_string) ==
    LET operand_tokens == SelectSeq(tokenize(regex_string, Alphabet), RefIsOperand)
    IN [i \in 1..Len(operand_tokens) |->
           <<operand_tokens[i][Len(operand_tokens[i])],
             operand_tokens[i] \notin {<<"e">>, <<"N">>}>>]

SimpleEpsilonPaths(n, state) ==
    {path \in UNION {[1..k -> 1..n.number_of_states] : k \in 1..n.number_of_states} :
        /\ path[1] = state
        /\ \A i, j \in DOMAIN path : i # j => path[i] # path[j]
        /\ \A i \in DOMAIN path :
               i > 1 => path[i] \in EdgeTargets(n, {path[i - 1]}, Epsilon)}

\* C26: for every state s of the NFA that to_DFA has worked on, the loop of
\* _get_epsilon_closure(s) ends after at most one iteration per epsilon path
\* from s without a repeated state, and returns s together with exactly the
\* states that epsilon edges lead to from s
C26_EpsilonClosure ==
    (Converted /\ str = <<>>) =>
        \A s \in 1..nfa.number_of_states :
            /\ epsilon_closure_iterations(nfa, <<s>>, {})
                   <= Cardinality(SimpleEpsilonPaths(nfa, s))
            /\ s \in _get_epsilon_closure(nfa, s)
            /\ _get_epsilon_closure(nfa, s) = EpsReach(nfa, {s}, nfa.number_of_states)

C26_Witness ==
    /\ Converted
    /\ str = <<>>
    /\ nfa.start_state = 1
    /\ 2 \in _get_transition(nfa, 1, Epsilon)
    /\ 1 \in _get_transition(nfa, 2, Epsilon)
    /\ _get_epsilon_closure(nfa, 1) = {1, 2}

\* C27: a Node construction or an add_child call on one node leaves the
\* children of every other node as they were, and the list object that is
\* the default of the parameter `children` stays empty
C27_OwnedChildLists ==
    /\ [](list_objects[DefaultChildren] = <<>>)
    /\ [][\A n \in 1..Len(node_objects) :
              (node_call'.op = "Node" \/ node_call'.self # n)
                  => ChildrenOf(n)' = ChildrenOf(n)]_vars

C27_Witness ==
    /\ Len(node_objects) = 2
    /\ node_call = [op |-> "add_child", self |-> 1]
    /\ node_objects[2].children = DefaultChildren
    /\ node_objects[1].children # DefaultChildren
    /\ ChildrenOf(1) = <<2, 1>>
    /\ ChildrenOf(2) = <<>>

\* C28: a next_token call that returns a token has consumed at least one
\* character and returns a non-empty lexeme, every such call leaves the
\* remaining input shorter, and a call that returns no token ends in
\* EOFError or InvalidToken
C28_ProgressThenEnd ==
    /\ [](last_call.kind = "token" =>
              /\ last_call.str_len >= 1
              /\ last_call.lexeme # <<>>)
    /\ [][last_call'.kind = "token" /\ lex_phase = "ready"
              => Len(source_file_data') < Len(source_file_data)]_vars
    /\ [](last_call.kind \notin {"none", "token"}
              => last_call.kind \in {"EOFError", "InvalidToken"})

\* C29: the DFA of the token type that a next_token call returns accepts the
\* lexeme the call returns, run from its start state
C29_LexemeAccepted ==
    last_call.kind = "token" =>
        /\ \E k \in 1..Len(generated_dfas) : generated_dfas[k].type = last_call.type
        /\ \A k \in 1..Len(generated_dfas) :
               generated_dfas[k].type = last_call.type
                   => DfaAccepts(generated_dfas[k].dfa, last_call.lexeme)

C29_Witness ==
    /\ last_call.kind = "token"
    /\ last_call.input[1] = Separator
    /\ last_call.lexeme = <<"a", "b">>
    /\ last_call.str_len = 3

\* some transition of DFA d leads into state 1
TargetsStateOne(d) ==
    \E state \in DOMAIN d.transition_function :
        \E symbol \in DOMAIN d.transition_function[state] :
            d.transition_function[state][symbol] = 1

Transitions(simple_nfa) ==
    UNION {UNION {{<<state, symbol, target>> :
                       target \in simple_nfa.transition_function[state][symbol]} :
                      symbol \in DOMAIN simple_nfa.transition_function[state]} :
               state \in DOMAIN simple_nfa.transition_function}

\* the compositions depth_first_recursive works through for an AST: for every
\* operator node the sub-NFAs it builds for the children (tree.py lines
\* 219-230) and the NFA the composing function of the operator makes of
\* them (for a concatenation node concat_to_nfa, the call of line 236,
\* applied to the two sub-NFAs of lines 226-230)
RECURSIVE Compositions(_, _)
Compositions(node, last_state) ==
    IF node.is_symbol \/ node.children = <<>> THEN {}
    ELSE IF node.value = "*"
    THEN LET operand_nfa == depth_first_recursive(node.children[1], last_state)
         IN {[function |-> "kleene_star_to_nfa",
              operands |-> <<operand_nfa>>,
              composed |-> kleene_star_to_nfa(operand_nfa)]}
                 \cup Compositions(node.children[1], last_state)
    ELSE LET left_nfa == depth_first_recursive(node.children[1], last_state)
             right_nfa == depth_first_recursive(node.children[2], left_nfa.last_state)
         IN {[function |-> IF node.value = "|" THEN "union_to_nfa" ELSE "concat_to_nfa",
              operands |-> <<left_nfa, right_nfa>>,
              composed |-> IF node.value = "|"
                           THEN union_to_nfa(left_nfa, right_nfa)
                           ELSE concat_to_nfa(left_nfa, right_nfa)]}
                 \cup Compositions(node.children[1], last_state)
                 \cup Compositions(node.children[2], left_nfa.last_state)

\* the composed NFA has every transition of its operands, and what it adds
\* are epsilon edges
OnlyAddsEpsilonEdges(c) ==
    LET of_operands == UNION {Transitions(c.operands[i]) : i \in DOMAIN c.operands}
    IN /\ of_operands \subseteq Transitions(c.composed)
       /\ \A t \in Transitions(c.composed) \ of_operands : t[2] = Epsilon

\* C31: for every operator node of the AST of an expression that has just
\* been parsed, the NFA that union_to_nfa, concat_to_nfa or
\* kleene_star_to_nfa composes of the sub-NFAs of the children has every
\* (state, symbol, target) transition of those sub-NFAs, and the transitions
\* it has besides are epsilon edges
C31_OnlyEpsilonEdgesAdded ==
    (Constructed /\ regex_obj.status = "ok" /\ ~regex_obj.invalid /\ str = <<>>) =>
        \A c \in Compositions(regex_obj.root_node, 0) : OnlyAddsEpsilonEdges(c)

(***************************************************************************)
(* Operands left on the operand stack (pa3/regex.py)                       *)
(***************************************************************************)
\* what RegEx.__init__ gets from _parse_regex and _empty_operator_stack for
\* the expression of regex_obj (regex.py lines 56-62)
ParseOfRegexObj ==
    _empty_operator_stack(_parse_regex(regex_obj.regex_string, Alphabet))

\* C32: when the parse of the expression a RegEx has just been constructed
\* from returns an AST, the root was the one node on the operand stack, and
\* the leaves of the AST from left to right are all the operand tokens of the
\* expression (symbols, escaped symbols, e and N): an expression that leaves
\* several operands on the stack is not returned as an AST
C32_OneOperandLeft ==
    (Constructed /\ str = <<>> /\ ParseOfRegexObj.status = "ok") =>
        /\ ParseOfRegexObj.operand_stack = <<>>
        /\ Leaves(ParseOfRegexObj.root_node) = OperandsWritten(regex_obj.regex_string)

(***************************************************************************)
(* The worklist of the subset construction (pa4/nfa.py)                    *)
(***************************************************************************)
\* no state-set stands twice in a list of state-sets
NoSetTwice(sets) ==
    \A i, j \in 1..Len(sets) : sets[i] = sets[j] => i = j

\* C33: while the worklist loop of _nfa_conversion runs no state-set is
\* handled twice and number_of_states stays within 2^|NFA states|, the DFA
\* returned has at most 2^|NFA states| states, and the loop, once entered,
\* reaches an empty queue
C33_WorklistTerminates ==
    /\ [](nfa_phase = "converting" =>
              /\ NoSetTwice(conversion.states_handled)
              /\ conversion.number_of_states <= 2 ^ nfa.number_of_states)
    /\ []((nfa_phase = "simulating" /\ conversion # NoConversion) =>
              dfa.number_of_states <= 2 ^ nfa.number_of_states)
    /\ (nfa_phase = "converting")
           ~> (nfa_phase = "converting" /\ conversion.queue = <<>>)

\* the loop has ended for an NFA in which a handled state-set leads back to
\* the start set
C33_Witness ==
    /\ nfa_phase = "converting"
    /\ conversion.queue = <<>>
    /\ Len(conversion.states_handled) >= 2
    /\ \E i \in 1..Len(conversion.states_handled), symbol \in Range(Alphabet) :
           dest_states(nfa, conversion.states_handled[i], symbol)
               = conversion.states_handled[1]

(***************************************************************************)
(* What a failing next_token leaves behind (pa4/lexer.py)                  *)
(***************************************************************************)
\* C34: a next_token call that raises InvalidToken leaves source_file_data
\* exactly as it was before the call, and no next_token call changes
\* generated_dfas
C34_InvalidTokenConsumesNothing ==
    [][lex_phase = "ready" =>
           /\ last_call'.kind = "InvalidToken" => source_file_data' = source_file_data
           /\ generated_dfas' = generated_dfas]_vars

====
